---------------------------- MODULE Spec2Model ----------------------------
(***************************************************************************)
(* Model of the personal-finance client: the AuthProvider (sign-up,        *)
(* sign-in with legacy-hash fallback, sign-out), the home screen (balance  *)
(* recompute, category breakdown, create / delete of a transaction) and    *)
(* the income screen (month breakdown, amount parsing, add income).        *)
(* The hosted store is modelled as tables (sets of rows); every remote     *)
(* call has an outcome chosen by the environment.  The variable toast is   *)
(* the output of a step: the toast the step shows, or ToastNinguno.        *)
(* SpecAuth, SpecIncome and SpecHome run one component each; SpecApp runs  *)
(* whichever screen is mounted.  In SpecHome the user acts when no call of *)
(* the screen is in progress (calls in sequence); SpecSolapado lets the    *)
(* calls of the home screen overlap, and SpecCategorias follows the        *)
(* seeding of the categorias table by several mounts.  SpecSesion opens    *)
(* the income screen after the AuthProvider was used, SpecCarga lets a     *)
(* second call start while one is in progress, SpecPrimeraCarga follows    *)
(* the first load on an empty store, and SpecTermina is the specification  *)
(* with fairness on the steps of the calls in progress.                    *)
(***************************************************************************)
EXTENDS Integers, Sequences, FiniteSets, TLC

(***************************************************************************)
(* Bounds of the model.                                                    *)
(***************************************************************************)
MaxUsuarios == 2

\* Decimal places kept by the fixed-point value of a number.
Decimales == 4

\* Handler calls of the income screen in progress at once.
MaxTareas == 1

\* Rows the transactions table is ever given (ids 1..MaxTransactions).
MaxTransactions == 4

\* Handler calls of the home screen in progress at once.
MaxOps == 2

\* Rows the transacciones table is ever given (ids 1..MaxTransacciones).
MaxTransacciones == 3

(***************************************************************************)
(* State.                                                                  *)
(***************************************************************************)
VARIABLES
  \* ---- AuthProvider and its tables
  tblUsuarios,    \* remote table usuarios: rows [id, gmail, contrasena]
  tblBilletera,   \* remote table billetera: rows [usuario_id, saldo]
  user,           \* AuthProvider state `user`: null or Some(row)
  cryptoSubtle,   \* whether crypto.subtle exists on this device
  auth,           \* the signUp / signIn call in progress and its locals
  causasVistas,   \* history: rejection causes signIn has thrown for so far
  \* ---- income screen and its table
  tblTransactions,    \* remote table transactions
  nextIdTx,           \* the id the store gives the next row of transactions
  transactions,       \* IncomeScreen state `transactions`
  amount,             \* IncomeScreen state `amount` (text of the input)
  category,           \* IncomeScreen state `category`
  loadingIncome,      \* IncomeScreen state `loading`
  isAuthenticated,    \* IncomeScreen state `isAuthenticated`
  modalVisibleIncome, \* IncomeScreen state `modalVisible`
  ruta,               \* route shown, changed by router.replace
  toast,              \* the toast shown by the last step (ToastNinguno: none)
  ahora,              \* the calendar month new Date() falls in (year * 12 + month)
  tareas,             \* async calls of the income screen in progress
  \* ---- home screen and its tables
  tblTransacciones,      \* remote table transacciones
  nextIdTr,              \* the id the store gives the next row of transacciones
  tblCategorias,         \* remote table categorias
  transacciones,         \* WelcomeScreen state `transacciones`
  categorias,            \* WelcomeScreen state `categorias`
  saldo,                 \* WelcomeScreen state `saldo`
  loading,               \* WelcomeScreen state `loading`
  loadingDatos,          \* WelcomeScreen state `loadingDatos`
  datosIngresos,         \* WelcomeScreen state `datosIngresos`
  datosEgresos,          \* WelcomeScreen state `datosEgresos`
  monto,                 \* WelcomeScreen state `monto` (text of the input)
  tipoSeleccionado,      \* WelcomeScreen state `tipoSeleccionado`
  categoriaSeleccionada, \* WelcomeScreen state `categoriaSeleccionada`
  modalVisible,          \* WelcomeScreen state `modalVisible`
  ops                    \* async calls of the home screen in progress

authVars == <<tblUsuarios, tblBilletera, user, cryptoSubtle, auth, causasVistas>>

incomeVars == <<tblTransactions, nextIdTx, transactions, amount, category,
                loadingIncome, isAuthenticated, modalVisibleIncome, ruta, toast,
                ahora, tareas>>

\* The variables of the income screen and of the app other than the toast.
incomeSinToast == <<tblTransactions, nextIdTx, transactions, amount, category,
                    loadingIncome, isAuthenticated, modalVisibleIncome, ruta, ahora, tareas>>

storeHomeVars == <<tblTransacciones, nextIdTr, tblCategorias>>

vistaHomeVars == <<transacciones, categorias, saldo, loading, loadingDatos,
                   datosIngresos, datosEgresos>>

formHomeVars == <<monto, tipoSeleccionado, categoriaSeleccionada, modalVisible>>

homeVars == <<storeHomeVars, vistaHomeVars, formHomeVars, ops>>

vars == <<authVars, incomeVars, homeVars>>

(***************************************************************************)
(* Generic helpers.                                                        *)
(***************************************************************************)
null == <<>>

Some(x) == <<x>>

Abs(x) == IF x < 0 THEN -x ELSE x

(***************************************************************************)
(* Text inputs and JavaScript number conversions.  A string is a sequence  *)
(* of one-character strings; a number is [nan, v] with v the value in      *)
(* units of 10^-Decimales (digits beyond that precision are dropped).      *)
(***************************************************************************)
Pow10(n) == IF n <= 0 THEN 1 ELSE IF n = 1 THEN 10 ELSE IF n = 2 THEN 100
            ELSE IF n = 3 THEN 1000 ELSE IF n = 4 THEN 10000 ELSE 100000

Escala == Pow10(Decimales)

NaN == [nan |-> TRUE, v |-> 0]

Num(x) == [nan |-> FALSE, v |-> x]

isNaN(x) == x.nan

Digitos == {"0", "1", "2", "3", "4", "5", "6", "7", "8", "9"}

DigitVal(c) ==
  CASE c = "0" -> 0 [] c = "1" -> 1 [] c = "2" -> 2 [] c = "3" -> 3 [] c = "4" -> 4
    [] c = "5" -> 5 [] c = "6" -> 6 [] c = "7" -> 7 [] c = "8" -> 8 [] c = "9" -> 9

\* Number of consecutive decimal digits of s starting at position i.
RECURSIVE RunDigitos(_, _)
RunDigitos(s, i) ==
  IF i > Len(s) \/ s[i] \notin Digitos THEN 0 ELSE 1 + RunDigitos(s, i + 1)

\* Value of the n digits of s starting at position i.
RECURSIVE ValorEntero(_, _, _)
ValorEntero(s, i, n) ==
  IF n = 0 THEN 0 ELSE ValorEntero(s, i, n - 1) * 10 + DigitVal(s[i + n - 1])

\* Value, in units of 10^-Decimales, of the fraction whose n digits start at i.
ValorFraccion(s, i, n) ==
  IF n >= Decimales THEN ValorEntero(s, i, Decimales)
  ELSE ValorEntero(s, i, n) * Pow10(Decimales - n)

RECURSIVE SaltarEspacios(_, _)
SaltarEspacios(s, i) ==
  IF i <= Len(s) /\ s[i] = " " THEN SaltarEspacios(s, i + 1) ELSE i

\* String.prototype.trim
RECURSIVE trim(_)
trim(s) ==
  IF s = <<>> THEN s
  ELSE IF Head(s) = " " THEN trim(Tail(s))
  ELSE IF s[Len(s)] = " " THEN trim(SubSeq(s, 1, Len(s) - 1))
  ELSE s

\* The decimal literal of s that starts at position i: [ok, fin, v], fin the
\* position after it.  digits [. digits] or . digits, with an optional sign.
LiteralDecimal(s, i) ==
  LET neg   == i <= Len(s) /\ s[i] = "-"
      j     == IF i <= Len(s) /\ s[i] \in {"-", "+"} THEN i + 1 ELSE i
      nInt  == RunDigitos(s, j)
      punto == j + nInt <= Len(s) /\ s[j + nInt] = "."
      nFrac == IF punto THEN RunDigitos(s, j + nInt + 1) ELSE 0
      mag   == ValorEntero(s, j, nInt) * Escala + ValorFraccion(s, j + nInt + 1, nFrac)
  IN [ok  |-> nInt + nFrac > 0,
      fin |-> IF punto THEN j + nInt + 1 + nFrac ELSE j + nInt,
      v   |-> IF neg THEN -mag ELSE mag]

\* parseFloat: leading white space is skipped and the longest prefix that is
\* a decimal literal is converted; whatever follows it is ignored.
parseFloat(s) ==
  LET lit == LiteralDecimal(s, SaltarEspacios(s, 1))
  IN IF lit.ok THEN Num(lit.v) ELSE NaN

\* Number(string): white space is trimmed, the empty string is 0, and the
\* whole of the rest has to be one decimal literal.  (Exponents, radix
\* prefixes and "Infinity" do not occur in the inputs of this model.)
Number(s) ==
  LET t   == trim(s)
      lit == LiteralDecimal(t, 1)
  IN IF t = <<>> THEN Num(0)
     ELSE IF lit.ok /\ lit.fin = Len(t) + 1 THEN Num(lit.v) ELSE NaN

\* amount.replace(/[^0-9.]/g, '')
SoloNumerico(s) == SelectSeq(s, LAMBDA c : c \in Digitos \/ c = ".")


(***************************************************************************)
(* AuthProvider.                                                           *)
(***************************************************************************)
Gmails == {"ana@mail", "luis@mail"}

\* Passwords as sequences of character codes (charCodeAt).
Contrasenas == {<<97>>, <<98, 99>>}

\* crypto.subtle.digest('SHA-256', ...) rendered as 64 hex characters:
\* an injective image of the password, never equal to an 8-character digest.
Sha256Hex(password) == <<"sha256", password>>

\* hash & hash: conversion to a signed 32-bit integer.  The passwords of
\* Contrasenas keep every intermediate value inside that range.
Int32(x) == x

RECURSIVE SimpleHashLoop(_, _, _)
SimpleHashLoop(password, i, hash) ==
  IF i > Len(password) THEN hash
  ELSE SimpleHashLoop(password, i + 1, Int32(((hash * 32) - hash) + password[i]))

\* Math.abs(hash).toString(16).padStart(8, '0'): determined by |hash|.
SimpleHashHex(password) == <<"hex8", Abs(SimpleHashLoop(password, 1, 0))>>

\* hashPassword: SHA-256 when crypto.subtle exists and the digest call
\* returns, the 32-bit fallback when it does not exist or the call throws.
hashPassword(password, subtle, digestOk) ==
  IF subtle /\ digestOk THEN Sha256Hex(password) ELSE SimpleHashHex(password)

AuthIdle ==
  [fn |-> "none", pc |-> "idle", gmail |-> "", contrasena |-> <<>>,
   newHash |-> <<>>, userData |-> null, resultado |-> "none", error |-> "",
   causa |-> "", userAntes |-> null, hashAntes |-> <<>>, legacy |-> FALSE,
   escrituras |-> {}]

FilasPorGmail(g) == {u \in tblUsuarios : u.gmail = g}

FilaPorId(i) == {u \in tblUsuarios : u.id = i}

NuevoId == IF tblUsuarios = {} THEN 1
           ELSE 1 + CHOOSE m \in {u.id : u \in tblUsuarios} :
                      \A u \in tblUsuarios : u.id <= m

ErrorSinUsuario_Distinto == "Usuario no encontrado"

\* The message of the error thrown when the row lookup fails.
ErrorSinUsuario == "Credenciales incorrectas"

\* The message of the error thrown when neither hash matches.
ErrorNoCoincide == "Credenciales incorrectas"

Lanzar(a, msg, causa) ==
  [a EXCEPT !.pc = "done", !.resultado = "throw", !.error = msg, !.causa = causa]

(* ---- signUp --------------------------------------------------------- *)
signUp_inicio(g, p) ==
  /\ auth.pc \in {"idle", "done"}
  /\ Cardinality(tblUsuarios) < MaxUsuarios
  /\ auth' = [AuthIdle EXCEPT !.fn = "signUp", !.pc = "hash", !.gmail = g,
                              !.contrasena = p, !.resultado = "pendiente",
                              !.userAntes = user]
  /\ UNCHANGED <<tblUsuarios, tblBilletera, user, cryptoSubtle, causasVistas>>
  /\ UNCHANGED <<incomeVars, homeVars>>

signUp_hash ==
  /\ auth.fn = "signUp" /\ auth.pc = "hash"
  /\ \E digestOk \in BOOLEAN :
       auth' = [auth EXCEPT !.pc = "insertUsuario",
                            !.newHash = hashPassword(auth.contrasena, cryptoSubtle, digestOk)]
  /\ UNCHANGED <<tblUsuarios, tblBilletera, user, cryptoSubtle, causasVistas>>
  /\ UNCHANGED <<incomeVars, homeVars>>

signUp_insertUsuario ==
  /\ auth.fn = "signUp" /\ auth.pc = "insertUsuario"
  /\ \/ \* userError
        /\ auth' = Lanzar(auth, "userError", "remoto")
        /\ UNCHANGED tblUsuarios
     \/ LET fila == [id |-> NuevoId, gmail |-> auth.gmail, contrasena |-> auth.newHash]
        IN /\ tblUsuarios' = tblUsuarios \cup {fila}
           /\ auth' = [auth EXCEPT !.pc = "insertBilletera", !.userData = Some(fila),
                                   !.escrituras = @ \cup {fila.id}]
  /\ UNCHANGED <<tblBilletera, user, cryptoSubtle, causasVistas>>
  /\ UNCHANGED <<incomeVars, homeVars>>

signUp_insertBilletera ==
  /\ auth.fn = "signUp" /\ auth.pc = "insertBilletera"
  /\ \/ /\ tblBilletera' = tblBilletera \cup
                             {[usuario_id |-> auth.userData[1].id, saldo |-> 0]}
        /\ user' = auth.userData
        /\ auth' = [auth EXCEPT !.pc = "done", !.resultado = "ok"]
     \/ \* walletError
        /\ auth' = [auth EXCEPT !.pc = "compensar"]
        /\ UNCHANGED <<tblBilletera, user>>
  /\ UNCHANGED <<tblUsuarios, cryptoSubtle, causasVistas>>
  /\ UNCHANGED <<incomeVars, homeVars>>

\* await supabase.from(USUARIOS).delete().eq('id', userData.id): the result
\* of the delete is not inspected; walletError is thrown either way.
signUp_compensar ==
  /\ auth.fn = "signUp" /\ auth.pc = "compensar"
  /\ \/ tblUsuarios' = tblUsuarios \ FilaPorId(auth.userData[1].id)
     \/ UNCHANGED tblUsuarios
  /\ auth' = Lanzar(auth, "walletError", "remoto")
  /\ UNCHANGED <<tblBilletera, user, cryptoSubtle, causasVistas>>
  /\ UNCHANGED <<incomeVars, homeVars>>

(* ---- signIn --------------------------------------------------------- *)
signIn_inicio(g, p) ==
  /\ auth.pc \in {"idle", "done"}
  /\ auth' = [AuthIdle EXCEPT !.fn = "signIn", !.pc = "select", !.gmail = g,
                              !.contrasena = p, !.resultado = "pendiente",
                              !.userAntes = user]
  /\ UNCHANGED <<tblUsuarios, tblBilletera, user, cryptoSubtle, causasVistas>>
  /\ UNCHANGED <<incomeVars, homeVars>>

\* .select('*').eq('gmail', gmail).single(): a row only when exactly one
\* row matches and the call does not fail.
signIn_select ==
  /\ auth.fn = "signIn" /\ auth.pc = "select"
  /\ \/ /\ auth' = Lanzar(auth, ErrorSinUsuario, "remoto")
        /\ UNCHANGED causasVistas
     \/ /\ Cardinality(FilasPorGmail(auth.gmail)) # 1
        /\ auth' = Lanzar(auth, ErrorSinUsuario, "noexiste")
        /\ causasVistas' = causasVistas \cup {"noexiste"}
     \/ /\ Cardinality(FilasPorGmail(auth.gmail)) = 1
        /\ LET fila == CHOOSE u \in FilasPorGmail(auth.gmail) : TRUE
           IN auth' = [auth EXCEPT !.pc = "hash", !.userData = Some(fila),
                                   !.hashAntes = fila.contrasena]
        /\ UNCHANGED causasVistas
  /\ UNCHANGED <<tblUsuarios, tblBilletera, user, cryptoSubtle>>
  /\ UNCHANGED <<incomeVars, homeVars>>

signIn_hash ==
  /\ auth.fn = "signIn" /\ auth.pc = "hash"
  /\ \E digestOk \in BOOLEAN :
       LET nh == hashPassword(auth.contrasena, cryptoSubtle, digestOk)
       IN IF auth.userData[1].contrasena = nh
          THEN /\ user' = auth.userData
               /\ auth' = [auth EXCEPT !.pc = "done", !.newHash = nh, !.resultado = "ok"]
          ELSE /\ auth' = [auth EXCEPT !.pc = "legacy", !.newHash = nh]
               /\ UNCHANGED user
  /\ UNCHANGED <<tblUsuarios, tblBilletera, cryptoSubtle, causasVistas>>
  /\ UNCHANGED <<incomeVars, homeVars>>

\* The inner try block: crypto.subtle.digest is called directly, so without
\* crypto.subtle (or when the call throws) the block is left through its
\* catch and the final throw is reached.
signIn_legacy ==
  /\ auth.fn = "signIn" /\ auth.pc = "legacy"
  /\ \E digestOk \in BOOLEAN :
       IF cryptoSubtle /\ digestOk
       THEN IF auth.userData[1].contrasena = Sha256Hex(auth.contrasena)
            THEN /\ auth' = [auth EXCEPT !.pc = "update", !.legacy = TRUE]
                 /\ UNCHANGED causasVistas
            ELSE /\ auth' = Lanzar(auth, ErrorNoCoincide, "nocoincide")
                 /\ causasVistas' = causasVistas \cup {"nocoincide"}
       ELSE IF auth.userData[1].contrasena = Sha256Hex(auth.contrasena)
            THEN /\ auth' = Lanzar(auth, ErrorNoCoincide, "legacyFallo")
                 /\ UNCHANGED causasVistas
            ELSE /\ auth' = Lanzar(auth, ErrorNoCoincide, "nocoincide")
                 /\ causasVistas' = causasVistas \cup {"nocoincide"}
  /\ UNCHANGED <<tblUsuarios, tblBilletera, user, cryptoSubtle>>
  /\ UNCHANGED <<incomeVars, homeVars>>

\* The variant of the update that has no .eq('id', ...) filter.
actualizarContrasena_Todas(id, newHashedPassword) ==
  {[u EXCEPT !.contrasena = newHashedPassword] : u \in tblUsuarios}

\* .update({ contrasena: newHashedPassword }).eq('id', user.id): the table
\* after the update.
actualizarContrasena(id, newHashedPassword) ==
  {IF u.id = id THEN [u EXCEPT !.contrasena = newHashedPassword] ELSE u : u \in tblUsuarios}

\* The variant of the step that calls setUser(user) also on updateError.
signIn_update_SiempreSetUser ==
  /\ auth.fn = "signIn" /\ auth.pc = "update"
  /\ \/ /\ tblUsuarios' = actualizarContrasena(auth.userData[1].id, auth.newHash)
        /\ user' = auth.userData
        /\ auth' = [auth EXCEPT !.pc = "done", !.resultado = "ok",
                                !.escrituras = @ \cup {auth.userData[1].id}]
     \/ /\ auth' = Lanzar(auth, ErrorNoCoincide, "updateError")
        /\ user' = auth.userData
        /\ UNCHANGED tblUsuarios
  /\ UNCHANGED <<tblBilletera, cryptoSubtle, causasVistas>>
  /\ UNCHANGED <<incomeVars, homeVars>>

signIn_update ==
  /\ auth.fn = "signIn" /\ auth.pc = "update"
  /\ \/ \* update succeeded
        /\ tblUsuarios' = actualizarContrasena(auth.userData[1].id, auth.newHash)
        /\ user' = auth.userData
        /\ auth' = [auth EXCEPT !.pc = "done", !.resultado = "ok",
                                !.escrituras = @ \cup {auth.userData[1].id}]
     \/ \* updateError
        /\ auth' = Lanzar(auth, ErrorNoCoincide, "updateError")
        /\ UNCHANGED <<tblUsuarios, user>>
  /\ UNCHANGED <<tblBilletera, cryptoSubtle, causasVistas>>
  /\ UNCHANGED <<incomeVars, homeVars>>

(* ---- signOut -------------------------------------------------------- *)
signOut ==
  /\ auth.pc \in {"idle", "done"}
  /\ user # null
  /\ user' = null
  /\ UNCHANGED <<tblUsuarios, tblBilletera, cryptoSubtle, auth, causasVistas>>
  /\ UNCHANGED <<incomeVars, homeVars>>

\* Accounts that may already exist in the store: created on a device with
\* crypto.subtle (SHA-256 digest stored) or on one without (32-bit digest).
CuentasIniciales ==
  {{}} \cup
  {{[id |-> 1, gmail |-> "ana@mail", contrasena |-> h]} :
      h \in {Sha256Hex(<<97>>), SimpleHashHex(<<97>>)}}

InitAuthVars ==
  /\ tblUsuarios \in CuentasIniciales
  /\ tblBilletera = {[usuario_id |-> u.id, saldo |-> 0] : u \in tblUsuarios}
  /\ user = null
  /\ cryptoSubtle \in BOOLEAN
  /\ auth = AuthIdle
  /\ causasVistas = {}

NextAuth ==
  \/ \E g \in Gmails, p \in Contrasenas : signUp_inicio(g, p)
  \/ signUp_hash
  \/ signUp_insertUsuario
  \/ signUp_insertBilletera
  \/ signUp_compensar
  \/ \E g \in Gmails, p \in Contrasenas : signIn_inicio(g, p)
  \/ signIn_select
  \/ signIn_hash
  \/ signIn_legacy
  \/ signIn_update
  \/ signOut

(***************************************************************************)
(* Income screen.  A remote call of this screen is one step: the step in   *)
(* which its response arrives, with the outcome chosen by the environment. *)
(***************************************************************************)
Tareas == 1..MaxTareas

INCOME_CATEGORIES == <<"Salario", "Inversiones", "Freelance", "Otros">>

\* The entries of INCOME_CATEGORIES the user picks in this model.
CategoriasElegidas == {INCOME_CATEGORIES[1]}

\* Texts typed into the amount input.
AmountInputs ==
  { <<>>, <<"a", "b", "c">>, <<"0">>, <<"1", "2">>,
    <<"S", "/", ".", " ", "1", ",", "2", "5", "0", ".", "5", "0", "a", "b", "c">> }

\* The first calendar month of the model: November 2026.
MesInicial == 2026 * 12 + 10

\* The months new Date() may fall in.
Meses == {MesInicial}

getMonth(d) == d % 12

getFullYear(d) == d \div 12

\* Routes of the router.
RutaIncome == "/screens/income"

RutaLogin == "/auth/login"

ToastNinguno == [tipo |-> "none", titulo |-> "", texto |-> ""]

\* Toast.show({type, text1, text2})
showError(titulo, texto) == [tipo |-> "error", titulo |-> titulo, texto |-> texto]

showSuccess(titulo, texto) == [tipo |-> "success", titulo |-> titulo, texto |-> texto]

showInfo(titulo, texto) == [tipo |-> "info", titulo |-> titulo, texto |-> texto]

TareaLibre ==
  [fn |-> "none", pc |-> "libre", uid |-> "", monto |-> 0, cat |-> "", fecha |-> 0, id |-> 0]

HayLibre == \E t \in Tareas : tareas[t].pc = "libre"

SlotLibre == CHOOSE t \in Tareas :
               /\ tareas[t].pc = "libre"
               /\ \A u \in Tareas : tareas[u].pc = "libre" => t <= u

RECURSIVE SumaAmount(_)
SumaAmount(rows) ==
  IF rows = {} THEN 0
  ELSE LET r == CHOOSE x \in rows : TRUE IN r.amount + SumaAmount(rows \ {r})

\* transactions.filter(t => t.type === 'income' &&
\*   new Date(t.date).getMonth() === new Date().getMonth())
currentMonthIncomes ==
  {t \in transactions : t.type = "income" /\ getMonth(t.date) = getMonth(ahora)}

\* transactions.reduce((sum, t) => sum + t.amount, 0)
totalIncome == SumaAmount(transactions)

\* The object built by the useMemo: one key per category that occurs.
incomesByCategory ==
  [c \in {t.category : t \in currentMonthIncomes} |->
     SumaAmount({t \in currentMonthIncomes : t.category = c})]

\* parseFloat(amount.replace(/[^0-9.]/g, ''))
numericAmount(a) == parseFloat(SoloNumerico(a))

\* The checks handleAddIncome makes before its try block: "ok" or the text
\* of the toast it shows.
ValidacionIncome(autenticado, a, c) ==
  IF ~autenticado THEN "Por favor inicia sesion para agregar ingresos"
  ELSE IF trim(a) = <<>> THEN "Por favor ingresa un monto"
  ELSE IF isNaN(numericAmount(a)) \/ numericAmount(a).v <= 0
       THEN "El monto debe ser un numero valido mayor a 0"
  ELSE IF c = "" THEN "Por favor selecciona una categoria"
  ELSE "ok"

\* supabase.auth.getSession() resolves to {data: {session}, error}: the
\* session of the signed-in user, no session, or an error and no session.
ResultadosGetSession ==
  { [session |-> Some("u1"), error |-> FALSE],
    [session |-> null, error |-> FALSE],
    [session |-> null, error |-> TRUE] }

\* What follows `await loadTransactions()` in the caller, in the same turn.
DespuesDeCargar(t, toastDeCarga) ==
  LET fn == tareas[t].fn IN
  /\ toast' = IF fn = "handleAddIncome" THEN showSuccess("Exito", "Ingreso guardado correctamente")
              ELSE IF fn = "deleteTransaction"
                   THEN showSuccess("Exito", "Transaccion eliminada correctamente")
              ELSE toastDeCarga
  /\ modalVisibleIncome' = IF fn = "handleAddIncome" THEN FALSE ELSE modalVisibleIncome
  /\ amount' = IF fn = "handleAddIncome" THEN <<>> ELSE amount
  /\ category' = IF fn = "handleAddIncome" THEN "" ELSE category
  /\ loadingIncome' = IF fn = "handleAddIncome" THEN FALSE ELSE loadingIncome
  /\ tareas' = [tareas EXCEPT ![t] = TareaLibre]

(* ---- initializeAuth (mount effect) ---------------------------------- *)
initializeAuth_getSession(t) ==
  /\ tareas[t].fn = "initializeAuth" /\ tareas[t].pc = "getSession"
  /\ \E r \in ResultadosGetSession :
       IF r.error \/ r.session = null
       THEN /\ ruta' = RutaLogin
            /\ tareas' = [tareas EXCEPT ![t] = TareaLibre]
            /\ UNCHANGED isAuthenticated
       ELSE /\ isAuthenticated' = TRUE
            /\ tareas' = [tareas EXCEPT ![t] =
                 [TareaLibre EXCEPT !.fn = "loadTransactions", !.pc = "load_getSession"]]
            /\ UNCHANGED ruta
  /\ toast' = ToastNinguno
  /\ UNCHANGED <<tblTransactions, nextIdTx, transactions, amount, category, loadingIncome,
                 modalVisibleIncome, ahora>>
  /\ UNCHANGED <<authVars, homeVars>>

(* ---- loadTransactions ----------------------------------------------- *)
loadTransactions_getSession(t) ==
  /\ tareas[t].pc = "load_getSession"
  /\ \E r \in ResultadosGetSession :
       IF r.session = null
       THEN /\ isAuthenticated' = FALSE
            /\ DespuesDeCargar(t, ToastNinguno)
       ELSE /\ tareas' = [tareas EXCEPT ![t].pc = "load_select",
                                        ![t].uid = r.session[1]]
            /\ toast' = ToastNinguno
            /\ UNCHANGED <<isAuthenticated, modalVisibleIncome, amount, category,
                           loadingIncome>>
  /\ UNCHANGED <<tblTransactions, nextIdTx, transactions, ruta, ahora>>
  /\ UNCHANGED <<authVars, homeVars>>

\* The answers of the select: rows, an error object returned or an exception
\* thrown, each with code 22P02 or with another code.
ResultadosSelect == {"ok", "22P02", "error", "lanza22P02", "lanza"}

EsFormatoUUID_Nunca(resultado) == FALSE

\* loadError.code === '22P02' and, in the catch, error.code === '22P02'
EsFormatoUUID(resultado) == resultado \in {"22P02", "lanza22P02"}

\* The toast loadTransactions shows for an answer of the select.
toastDeCarga(resultado) ==
  IF resultado = "ok" \/ EsFormatoUUID(resultado) THEN ToastNinguno
  ELSE IF resultado = "error"
       THEN showError("Error", "No se pudieron cargar los ingresos")
  ELSE showError("Error", "Error al cargar las transacciones")

loadTransactions_respuesta(t, resultado) ==
  /\ tareas[t].pc = "load_select"
  /\ transactions' =
       IF resultado = "ok"
       THEN {r \in tblTransactions : r.user_id = tareas[t].uid /\ r.type = "income"}
       ELSE IF EsFormatoUUID(resultado) THEN {} ELSE transactions
  /\ DespuesDeCargar(t, toastDeCarga(resultado))
  /\ UNCHANGED <<tblTransactions, nextIdTx, isAuthenticated, ruta, ahora>>
  /\ UNCHANGED <<authVars, homeVars>>

loadTransactions_select(t) ==
  \E resultado \in ResultadosSelect : loadTransactions_respuesta(t, resultado)

(* ---- handleAddIncome ------------------------------------------------ *)
handleAddIncome_inicio ==
  /\ ruta = RutaIncome
  /\ modalVisibleIncome /\ ~loadingIncome
  /\ HayLibre
  /\ nextIdTx <= MaxTransactions
  /\ LET v == ValidacionIncome(isAuthenticated, amount, category) IN
     IF v # "ok"
     THEN /\ toast' = showError(IF isAuthenticated THEN "Error" ELSE "Error de Autenticacion", v)
          /\ UNCHANGED <<loadingIncome, tareas>>
     ELSE /\ loadingIncome' = TRUE
          /\ tareas' = [tareas EXCEPT ![SlotLibre] =
               [TareaLibre EXCEPT !.fn = "handleAddIncome", !.pc = "getSession",
                                  !.monto = numericAmount(amount).v, !.cat = category]]
          /\ toast' = ToastNinguno
  /\ UNCHANGED <<tblTransactions, nextIdTx, transactions, amount, category,
                 isAuthenticated, modalVisibleIncome, ruta, ahora>>
  /\ UNCHANGED <<authVars, homeVars>>

handleAddIncome_getSession(t) ==
  /\ tareas[t].fn = "handleAddIncome" /\ tareas[t].pc = "getSession"
  /\ \E r \in ResultadosGetSession :
       IF r.error \/ r.session = null
       THEN /\ toast' = showError("Error", "Por favor inicia sesion nuevamente")
            /\ loadingIncome' = FALSE
            /\ tareas' = [tareas EXCEPT ![t] = TareaLibre]
       ELSE /\ tareas' = [tareas EXCEPT ![t].pc = "insert",
                                        ![t].uid = r.session[1],
                                        ![t].fecha = ahora]
            /\ toast' = ToastNinguno
            /\ UNCHANGED loadingIncome
  /\ UNCHANGED <<tblTransactions, nextIdTx, transactions, amount, category,
                 isAuthenticated, modalVisibleIncome, ruta, ahora>>
  /\ UNCHANGED <<authVars, homeVars>>

handleAddIncome_insert(t) ==
  /\ tareas[t].fn = "handleAddIncome" /\ tareas[t].pc = "insert"
  /\ \/ /\ tblTransactions' = tblTransactions \cup
             {[id |-> nextIdTx, user_id |-> tareas[t].uid, type |-> "income",
               amount |-> tareas[t].monto, category |-> tareas[t].cat,
               date |-> tareas[t].fecha]}
        /\ nextIdTx' = nextIdTx + 1
        /\ tareas' = [tareas EXCEPT ![t].pc = "load_getSession"]
        /\ toast' = ToastNinguno
        /\ UNCHANGED loadingIncome
     \/ /\ toast' = showError("Error", "No se pudo guardar el ingreso")
        /\ loadingIncome' = FALSE
        /\ tareas' = [tareas EXCEPT ![t] = TareaLibre]
        /\ UNCHANGED <<tblTransactions, nextIdTx>>
  /\ UNCHANGED <<transactions, amount, category, isAuthenticated,
                 modalVisibleIncome, ruta, ahora>>
  /\ UNCHANGED <<authVars, homeVars>>

(* ---- deleteTransaction ---------------------------------------------- *)
deleteTransaction_inicio(id) ==
  /\ ruta = RutaIncome
  /\ id \in {r.id : r \in currentMonthIncomes}
  /\ HayLibre
  /\ tareas' = [tareas EXCEPT ![SlotLibre] =
       [TareaLibre EXCEPT !.fn = "deleteTransaction", !.pc = "delete", !.id = id]]
  /\ toast' = ToastNinguno
  /\ UNCHANGED <<tblTransactions, nextIdTx, transactions, amount, category, loadingIncome,
                 isAuthenticated, modalVisibleIncome, ruta, ahora>>
  /\ UNCHANGED <<authVars, homeVars>>

deleteTransaction_delete(t) ==
  /\ tareas[t].fn = "deleteTransaction" /\ tareas[t].pc = "delete"
  /\ \/ /\ tblTransactions' = {r \in tblTransactions : r.id # tareas[t].id}
        /\ tareas' = [tareas EXCEPT ![t].pc = "load_getSession"]
        /\ toast' = ToastNinguno
     \/ /\ toast' = showError("Error", "No se pudo eliminar el ingreso")
        /\ tareas' = [tareas EXCEPT ![t] = TareaLibre]
        /\ UNCHANGED tblTransactions
  /\ UNCHANGED <<nextIdTx, transactions, amount, category, loadingIncome,
                 isAuthenticated, modalVisibleIncome, ruta, ahora>>
  /\ UNCHANGED <<authVars, homeVars>>

(* ---- form and environment ------------------------------------------- *)
abrirModalIncome ==
  /\ ruta = RutaIncome
  /\ ~modalVisibleIncome
  /\ modalVisibleIncome' = TRUE
  /\ toast' = ToastNinguno
  /\ UNCHANGED <<tblTransactions, nextIdTx, transactions, amount, category, loadingIncome,
                 isAuthenticated, ruta, ahora, tareas>>
  /\ UNCHANGED <<authVars, homeVars>>

\* The Cancelar button: setModalVisible(false); resetForm()
cancelarIncome ==
  /\ ruta = RutaIncome
  /\ modalVisibleIncome
  /\ modalVisibleIncome' = FALSE
  /\ amount' = <<>>
  /\ category' = ""
  /\ toast' = ToastNinguno
  /\ UNCHANGED <<tblTransactions, nextIdTx, transactions, loadingIncome, isAuthenticated,
                 ruta, ahora, tareas>>
  /\ UNCHANGED <<authVars, homeVars>>

setAmount(a) ==
  /\ ruta = RutaIncome
  /\ modalVisibleIncome
  /\ amount' = a
  /\ toast' = ToastNinguno
  /\ UNCHANGED <<tblTransactions, nextIdTx, transactions, category, loadingIncome,
                 isAuthenticated, modalVisibleIncome, ruta, ahora, tareas>>
  /\ UNCHANGED <<authVars, homeVars>>

setCategory(c) ==
  /\ ruta = RutaIncome
  /\ modalVisibleIncome
  /\ category' = c
  /\ toast' = ToastNinguno
  /\ UNCHANGED <<tblTransactions, nextIdTx, transactions, amount, loadingIncome,
                 isAuthenticated, modalVisibleIncome, ruta, ahora, tareas>>
  /\ UNCHANGED <<authVars, homeVars>>

\* Rows the table may hold when the screen opens: an income of this user
\* dated one year before the first month, one of the month before, and an
\* income of another user.
TransactionsIniciales ==
  { [id |-> 1, user_id |-> "u1", type |-> "income", amount |-> 100 * Escala,
     category |-> "Salario", date |-> MesInicial - 12],
    [id |-> 2, user_id |-> "u1", type |-> "income", amount |-> 7 * Escala,
     category |-> "Otros", date |-> MesInicial - 1],
    [id |-> 3, user_id |-> "u2", type |-> "income", amount |-> 50 * Escala,
     category |-> "Salario", date |-> MesInicial] }

InitIncomeVars ==
  /\ tblTransactions = TransactionsIniciales
  /\ nextIdTx = Cardinality(TransactionsIniciales) + 1
  /\ transactions = {}
  /\ amount = <<>>
  /\ category = ""
  /\ loadingIncome = FALSE
  /\ isAuthenticated = FALSE
  /\ modalVisibleIncome = FALSE
  /\ ruta = RutaIncome
  /\ toast = ToastNinguno
  /\ ahora \in Meses
  /\ tareas = [t \in Tareas |->
                 IF t = 1 THEN [TareaLibre EXCEPT !.fn = "initializeAuth", !.pc = "getSession"]
                 ELSE TareaLibre]

\* The income screen is not mounted.
IncomeSinMontar ==
  /\ tblTransactions = {}
  /\ nextIdTx = 1
  /\ transactions = {}
  /\ amount = <<>>
  /\ category = ""
  /\ loadingIncome = FALSE
  /\ isAuthenticated = FALSE
  /\ modalVisibleIncome = FALSE
  /\ ruta = RutaLogin
  /\ toast = ToastNinguno
  /\ ahora = MesInicial
  /\ tareas = [t \in Tareas |-> TareaLibre]

\* No AuthProvider call is made.
AuthSinUso ==
  /\ tblUsuarios = {}
  /\ tblBilletera = {}
  /\ user = null
  /\ cryptoSubtle = TRUE
  /\ auth = AuthIdle
  /\ causasVistas = {}

NextIncome ==
  \/ \E t \in Tareas : initializeAuth_getSession(t)
  \/ \E t \in Tareas : loadTransactions_getSession(t)
  \/ \E t \in Tareas : loadTransactions_select(t)
  \/ handleAddIncome_inicio
  \/ \E t \in Tareas : handleAddIncome_getSession(t)
  \/ \E t \in Tareas : handleAddIncome_insert(t)
  \/ \E id \in 1..MaxTransactions : deleteTransaction_inicio(id)
  \/ \E t \in Tareas : deleteTransaction_delete(t)
  \/ abrirModalIncome
  \/ cancelarIncome
  \/ \E a \in AmountInputs : setAmount(a)
  \/ \E c \in CategoriasElegidas : setCategory(c)

(***************************************************************************)
(* Home screen (WelcomeScreen).  A query whose rows the screen keeps is    *)
(* two steps, the store answering and the screen receiving the answer; a   *)
(* stored procedure and the ownership check are one step, the one in which *)
(* the response arrives.  The outcome is chosen by the environment.        *)
(***************************************************************************)
Ops == 1..MaxOps

RutaHome == "/screens/welcome"

CATEGORIAS_DEFAULT ==
  << [nombre |-> "Salario", tipo |-> "ingreso"],
     [nombre |-> "Inversiones", tipo |-> "ingreso"],
     [nombre |-> "Freelance", tipo |-> "ingreso"],
     [nombre |-> "Ventas", tipo |-> "ingreso"],
     [nombre |-> "Otros", tipo |-> "ingreso"],
     [nombre |-> "Comida", tipo |-> "egreso"],
     [nombre |-> "Transporte", tipo |-> "egreso"],
     [nombre |-> "Servicios", tipo |-> "egreso"],
     [nombre |-> "Entretenimiento", tipo |-> "egreso"],
     [nombre |-> "Salud", tipo |-> "egreso"],
     [nombre |-> "Educacion", tipo |-> "egreso"],
     [nombre |-> "Otros", tipo |-> "egreso"] >>

\* The rows of categorias in this model: the first default of each kind.
CategoriasIniciales ==
  { [id |-> 1, nombre |-> CATEGORIAS_DEFAULT[1].nombre, tipo |-> CATEGORIAS_DEFAULT[1].tipo],
    [id |-> 2, nombre |-> CATEGORIAS_DEFAULT[6].nombre, tipo |-> CATEGORIAS_DEFAULT[6].tipo] }

\* Texts typed into the amount input of the modal.
MontoInputs == { <<"a", "b", "c">>, <<"0">>, <<"5">>, <<"$", "5", "0">> }

\* mostrarMensaje(mensaje): showInfo('Informacion', mensaje)
mostrarMensaje(mensaje) == showInfo("Informacion", mensaje)

MsgSinPermiso == "No tienes permiso para eliminar esta transaccion"

MsgMontoInvalido == "Por favor ingresa un monto valido"

MsgCompletar == "Por favor ingresa el monto y selecciona una categoria"

OpLibre ==
  [fn |-> "", pc |-> "libre", tid |-> 0, cat |-> 0, monto |-> 0, tipo |-> "",
   cd |-> "no", cdDatos |-> {}, os |-> "no", osDatos |-> {}]

HayOpLibre == \E o \in Ops : ops[o].pc = "libre"

OpSlotLibre == CHOOSE o \in Ops : ops[o].pc = "libre"

idUsuario == IF user = null THEN 0 ELSE user[1].id

\* .select('*, categorias (id, nombre, tipo)').eq('usuario_id', user?.id)
FilasConCategoria ==
  { [id |-> r.id, usuario_id |-> r.usuario_id, categoria_id |-> r.categoria_id,
     monto |-> r.monto, tipo |-> r.tipo, fecha |-> r.fecha,
     categorias |-> CHOOSE c \in tblCategorias : c.id = r.categoria_id] :
      r \in {x \in tblTransacciones : x.usuario_id = idUsuario} }

\* .from('transacciones').select('monto, tipo').eq('usuario_id', user?.id)
FilasDeSaldo == {x \in tblTransacciones : x.usuario_id = idUsuario}

\* The variant of the reduce of obtenerSaldoActual that adds every amount.
ReducirSaldo_SinSigno(acc, transaccion) == acc + transaccion.monto

\* (acc, transaccion) => tipo === 'ingreso' ? acc + monto : acc - monto
ReducirSaldo(acc, transaccion) ==
  IF transaccion.tipo = "ingreso" THEN acc + transaccion.monto
  ELSE acc - transaccion.monto

RECURSIVE nuevoSaldo(_)
nuevoSaldo(filas) ==
  IF filas = {} THEN 0
  ELSE LET r == CHOOSE x \in filas : TRUE
       IN ReducirSaldo(nuevoSaldo(filas \ {r}), r)

RECURSIVE SumaMonto(_)
SumaMonto(filas) ==
  IF filas = {} THEN 0
  ELSE LET r == CHOOSE x \in filas : TRUE
       IN r.monto + SumaMonto(filas \ {r})

\* The variant of procesarTransacciones that keeps the rows of the current
\* calendar month only.
procesarTransacciones_DelMes(filas, esIngreso) ==
  LET delTipo == {t \in filas : /\ (t.tipo = "ingreso") = esIngreso
                                /\ getMonth(t.fecha) = getMonth(ahora)
                                /\ getFullYear(t.fecha) = getFullYear(ahora)}
  IN [n \in {t.categorias.nombre : t \in delTipo} |->
        SumaMonto({t \in delTipo : t.categorias.nombre = n})]

\* procesarTransacciones: the totals by category name of the incomes
\* (esIngreso) or of every other row, over all of `transacciones`.
procesarTransacciones(filas, esIngreso) ==
  LET delTipo == {t \in filas : (t.tipo = "ingreso") = esIngreso}
  IN [n \in {t.categorias.nombre : t \in delTipo} |->
        SumaMonto({t \in delTipo : t.categorias.nombre = n})]

categoriasFiltradas == {c \in categorias : c.tipo = tipoSeleccionado}

\* The variant of the validation that does not look at the number.
ValidacionHome_SinNumero(m, c) ==
  IF m = <<>> \/ c = null THEN MsgCompletar ELSE ""

\* The outcome of the validation of agregarTransaccion: "" when it passes.
ValidacionHome(m, c) ==
  IF m = <<>> \/ c = null THEN MsgCompletar
  ELSE IF isNaN(Number(m)) \/ Number(m).v <= 0 THEN MsgMontoInvalido
  ELSE ""

\* The texts of the success messages of agregarTransaccion and
\* eliminarTransaccion.
MsgExito(fn, tipo) ==
  IF fn = "agregarTransaccion"
  THEN (IF tipo = "ingreso" THEN "Ingreso agregado correctamente"
        ELSE "Gasto agregado correctamente")
  ELSE "La transaccion ha sido eliminada correctamente"

\* The variant of the continuation that shows the success message as soon as
\* one of the two calls has ended.
FinDeOp_SinEsperar(o, cdFin, osFin, toastAntes) ==
  /\ ops' = IF cdFin /\ osFin THEN [ops EXCEPT ![o] = OpLibre]
            ELSE [ops EXCEPT ![o].cd = IF cdFin THEN "fin" ELSE @,
                             ![o].cdDatos = IF cdFin THEN {} ELSE @,
                             ![o].os = IF osFin THEN "fin" ELSE @,
                             ![o].osDatos = IF osFin THEN {} ELSE @]
  /\ loading' = IF cdFin /\ osFin /\ ops[o].fn # "efecto" THEN FALSE ELSE loading
  /\ toast' = IF ops[o].fn \in {"agregarTransaccion", "eliminarTransaccion"}
              THEN mostrarMensaje(MsgExito(ops[o].fn, ops[o].tipo))
              ELSE toastAntes

\* The continuation of Promise.all([cargarDatos(), obtenerSaldoActual()])
\* and the finally block, once both calls of op o have ended.
FinDeOp(o, cdFin, osFin, toastAntes) ==
  IF cdFin /\ osFin
  THEN /\ ops' = [ops EXCEPT ![o] = OpLibre]
       /\ loading' = IF ops[o].fn = "efecto" THEN loading ELSE FALSE
       /\ toast' = IF ops[o].fn \in {"agregarTransaccion", "eliminarTransaccion"}
                   THEN mostrarMensaje(MsgExito(ops[o].fn, ops[o].tipo))
                   ELSE toastAntes
  ELSE /\ ops' = [ops EXCEPT ![o].cd = IF cdFin THEN "fin" ELSE @,
                             ![o].cdDatos = IF cdFin THEN {} ELSE @,
                             ![o].os = IF osFin THEN "fin" ELSE @,
                             ![o].osDatos = IF osFin THEN {} ELSE @]
       /\ loading' = loading
       /\ toast' = toastAntes

\* The stored procedure crear_transaccion: the table after the call.
crear_transaccion(p_usuario_id, p_categoria_id, p_monto, p_tipo) ==
  tblTransacciones \cup
    { [id |-> nextIdTr, usuario_id |-> p_usuario_id, categoria_id |-> p_categoria_id,
       monto |-> p_monto, tipo |-> p_tipo, fecha |-> ahora] }

\* The stored procedure eliminar_transaccion: the table after the call.
eliminar_transaccion(p_usuario_id, p_transaccion_id) ==
  {r \in tblTransacciones : ~(r.id = p_transaccion_id /\ r.usuario_id = p_usuario_id)}

\* Promise.all([cargarDatos(), obtenerSaldoActual()]): both calls run up to
\* their first await.
IniciarRefresco(op) == [op EXCEPT !.pc = "refresco", !.cd = "q1", !.os = "q"]

CrearEnVuelo == {o \in Ops : ops[o].fn = "agregarTransaccion" /\ ops[o].pc = "rpc"}

\* handleCloseModal: the callback of the 200 ms closing animation, taken to
\* run with the call.
handleCloseModal ==
  /\ modalVisible' = FALSE
  /\ tipoSeleccionado' = "ingreso"
  /\ categoriaSeleccionada' = null
  /\ monto' = <<>>

(* ---- agregarTransaccion ---------------------------------------------- *)
\* The variant of the overdraft condition that does not look at the kind.
ExcedeSaldo_SinTipo(tipo, montoNumerico) == montoNumerico > saldo

\* tipoSeleccionado === 'egreso' && montoNumerico > saldo
ExcedeSaldo(tipo, montoNumerico) == tipo = "egreso" /\ montoNumerico > saldo

\* mostrarAdvertenciaSaldoNegativo(monto, saldo): the toast it shows; the
\* promise it returns resolves to true at once.
AdvertenciaSaldo == showInfo("Advertencia de Saldo", "El gasto excede tu saldo actual")

\* A press on the add button, which is disabled while loading, while monto
\* is empty and while no category is selected.
agregarTransaccion_inicio ==
  /\ ruta = RutaHome
  /\ modalVisible
  /\ ~loading /\ monto # <<>> /\ categoriaSeleccionada # null
  /\ LET v == ValidacionHome(monto, categoriaSeleccionada)
         montoNumerico == Number(monto).v
     IN IF v # ""
        THEN /\ toast' = mostrarMensaje(v)
             /\ UNCHANGED <<loading, ops, formHomeVars>>
        ELSE /\ HayOpLibre
             /\ nextIdTr + Cardinality(CrearEnVuelo) <= MaxTransacciones
             /\ loading' = TRUE
             /\ handleCloseModal
             /\ toast' = IF ExcedeSaldo(tipoSeleccionado, montoNumerico)
                         THEN AdvertenciaSaldo
                         ELSE ToastNinguno
             /\ ops' = [ops EXCEPT ![OpSlotLibre] =
                          [OpLibre EXCEPT !.fn = "agregarTransaccion", !.pc = "rpc",
                                          !.cat = categoriaSeleccionada[1].id,
                                          !.monto = montoNumerico,
                                          !.tipo = tipoSeleccionado]]
  /\ UNCHANGED <<storeHomeVars, transacciones, categorias, saldo, loadingDatos,
                 datosIngresos, datosEgresos>>
  /\ UNCHANGED <<incomeSinToast, authVars>>

\* The variant of the step without the finally block: the catch shows its
\* message and loading is left as it is.
agregarTransaccion_rpc_SinFinally(o) ==
  /\ ops[o].fn = "agregarTransaccion" /\ ops[o].pc = "rpc"
  /\ \/ /\ tblTransacciones' = crear_transaccion(idUsuario, ops[o].cat, ops[o].monto, ops[o].tipo)
        /\ nextIdTr' = nextIdTr + 1
        /\ loadingDatos' = TRUE
        /\ ops' = [ops EXCEPT ![o] = IniciarRefresco(@)]
        /\ toast' = ToastNinguno
     \/ /\ toast' = mostrarMensaje(IF ops[o].tipo = "ingreso"
                                   THEN "No se pudo agregar el ingreso"
                                   ELSE "No se pudo agregar el gasto")
        /\ ops' = [ops EXCEPT ![o] = OpLibre]
        /\ UNCHANGED <<tblTransacciones, nextIdTr, loadingDatos>>
  /\ UNCHANGED <<tblCategorias, transacciones, categorias, saldo, datosIngresos,
                 datosEgresos, formHomeVars, loading>>
  /\ UNCHANGED <<incomeSinToast, authVars>>

agregarTransaccion_rpc(o) ==
  /\ ops[o].fn = "agregarTransaccion" /\ ops[o].pc = "rpc"
  /\ \/ /\ tblTransacciones' = crear_transaccion(idUsuario, ops[o].cat, ops[o].monto, ops[o].tipo)
        /\ nextIdTr' = nextIdTr + 1
        /\ loadingDatos' = TRUE
        /\ ops' = [ops EXCEPT ![o] = IniciarRefresco(@)]
        /\ toast' = ToastNinguno
        /\ UNCHANGED loading
     \/ /\ toast' = mostrarMensaje(IF ops[o].tipo = "ingreso"
                                   THEN "No se pudo agregar el ingreso"
                                   ELSE "No se pudo agregar el gasto")
        /\ loading' = FALSE
        /\ ops' = [ops EXCEPT ![o] = OpLibre]
        /\ UNCHANGED <<tblTransacciones, nextIdTr, loadingDatos>>
  /\ UNCHANGED <<tblCategorias, transacciones, categorias, saldo, datosIngresos,
                 datosEgresos, formHomeVars>>
  /\ UNCHANGED <<incomeSinToast, authVars>>

(* ---- eliminarTransaccion --------------------------------------------- *)
\* The delete button: confirmarEliminacion resolves true at once and
\* eliminarTransaccion(user.id, transaccionId, monto) starts.  The id ranges
\* over the ids of the table, those of rows that are not listed included.
eliminarTransaccion_inicio(transaccionId) ==
  /\ ruta = RutaHome
  /\ user # null
  /\ HayOpLibre
  /\ toast' = showInfo("Eliminar transaccion?", "Esta accion no se puede deshacer")
  /\ loading' = TRUE
  /\ ops' = [ops EXCEPT ![OpSlotLibre] =
               [OpLibre EXCEPT !.fn = "eliminarTransaccion", !.pc = "check",
                               !.tid = transaccionId]]
  /\ UNCHANGED <<storeHomeVars, transacciones, categorias, saldo, loadingDatos,
                 datosIngresos, datosEgresos, formHomeVars>>
  /\ UNCHANGED <<incomeSinToast, authVars>>

\* The variant of the ownership check that lets every call through.
TienePermiso_Siempre(usuarioId, transaccionId, checkError) == TRUE

\* .eq('id', transaccionId).eq('usuario_id', usuarioId).single() followed by
\* `checkError || !transaccion`
TienePermiso(usuarioId, transaccionId, checkError) ==
  /\ ~checkError
  /\ \E r \in tblTransacciones : r.id = transaccionId /\ r.usuario_id = usuarioId

eliminarTransaccion_check(o) ==
  /\ ops[o].fn = "eliminarTransaccion" /\ ops[o].pc = "check"
  /\ \E checkError \in BOOLEAN :
       IF TienePermiso(idUsuario, ops[o].tid, checkError)
       THEN /\ ops' = [ops EXCEPT ![o].pc = "rpc"]
            /\ toast' = ToastNinguno
            /\ UNCHANGED loading
       ELSE /\ toast' = mostrarMensaje(MsgSinPermiso)
            /\ loading' = FALSE
            /\ ops' = [ops EXCEPT ![o] = OpLibre]
  /\ UNCHANGED <<storeHomeVars, transacciones, categorias, saldo, loadingDatos,
                 datosIngresos, datosEgresos, formHomeVars>>
  /\ UNCHANGED <<incomeSinToast, authVars>>

eliminarTransaccion_rpc(o) ==
  /\ ops[o].fn = "eliminarTransaccion" /\ ops[o].pc = "rpc"
  /\ \/ /\ tblTransacciones' = eliminar_transaccion(idUsuario, ops[o].tid)
        /\ loadingDatos' = TRUE
        /\ ops' = [ops EXCEPT ![o] = IniciarRefresco(@)]
        /\ toast' = ToastNinguno
        /\ UNCHANGED loading
     \/ /\ toast' = mostrarMensaje("No se pudo eliminar la transaccion. Intenta nuevamente.")
        /\ loading' = FALSE
        /\ ops' = [ops EXCEPT ![o] = OpLibre]
        /\ UNCHANGED <<tblTransacciones, loadingDatos>>
  /\ UNCHANGED <<nextIdTr, tblCategorias, transacciones, categorias, saldo, datosIngresos,
                 datosEgresos, formHomeVars>>
  /\ UNCHANGED <<incomeSinToast, authVars>>

(* ---- cargarDatos ------------------------------------------------------ *)
\* The store answers the query of transacciones of cargarDatos.
transacciones_select(o) ==
  /\ ops[o].cd = "q1"
  /\ \/ ops' = [ops EXCEPT ![o].cd = "q1_ok", ![o].cdDatos = FilasConCategoria]
     \/ ops' = [ops EXCEPT ![o].cd = "q1_error"]
  /\ UNCHANGED <<storeHomeVars, vistaHomeVars, formHomeVars>>
  /\ toast' = ToastNinguno
  /\ UNCHANGED <<incomeSinToast, authVars>>

\* cargarDatos receives the transactions: setTransacciones, and the effect
\* on [transacciones] runs procesarTransacciones.
cargarDatos_transacciones(o) ==
  /\ ops[o].cd \in {"q1_ok", "q1_error"}
  /\ IF ops[o].cd = "q1_ok"
     THEN /\ transacciones' = ops[o].cdDatos
          /\ datosIngresos' = procesarTransacciones(ops[o].cdDatos, TRUE)
          /\ datosEgresos' = procesarTransacciones(ops[o].cdDatos, FALSE)
          /\ ops' = [ops EXCEPT ![o].cd = "q2", ![o].cdDatos = {}]
          /\ toast' = ToastNinguno
          /\ UNCHANGED <<loadingDatos, loading>>
     ELSE /\ loadingDatos' = FALSE
          /\ FinDeOp(o, TRUE, ops[o].os = "fin",
                     mostrarMensaje("No se pudieron cargar los datos"))
          /\ UNCHANGED <<transacciones, datosIngresos, datosEgresos>>
  /\ UNCHANGED <<storeHomeVars, categorias, saldo, formHomeVars>>
  /\ UNCHANGED <<incomeSinToast, authVars>>

\* The store answers the query of categorias of cargarDatos.
categorias_select(o) ==
  /\ ops[o].cd = "q2"
  /\ \/ ops' = [ops EXCEPT ![o].cd = "q2_ok", ![o].cdDatos = tblCategorias]
     \/ ops' = [ops EXCEPT ![o].cd = "q2_error"]
  /\ UNCHANGED <<storeHomeVars, vistaHomeVars, formHomeVars>>
  /\ toast' = ToastNinguno
  /\ UNCHANGED <<incomeSinToast, authVars>>

cargarDatos_categorias(o) ==
  /\ ops[o].cd \in {"q2_ok", "q2_error"}
  /\ categorias' = IF ops[o].cd = "q2_ok" THEN ops[o].cdDatos ELSE categorias
  /\ loadingDatos' = FALSE
  /\ FinDeOp(o, TRUE, ops[o].os = "fin",
             IF ops[o].cd = "q2_ok" THEN ToastNinguno
             ELSE mostrarMensaje("No se pudieron cargar los datos"))
  /\ UNCHANGED <<storeHomeVars, transacciones, saldo, datosIngresos, datosEgresos,
                 formHomeVars>>
  /\ UNCHANGED <<incomeSinToast, authVars>>

(* ---- inicializarCategorias -------------------------------------------- *)
\* .insert(CATEGORIAS_DEFAULT): the table after the insert; the store
\* numbers the new rows after the ones it holds.
insertarCategorias(filas) ==
  tblCategorias \cup
    { [id |-> Cardinality(tblCategorias) + i, nombre |-> filas[i].nombre,
       tipo |-> filas[i].tipo] : i \in 1..Len(filas) }

\* !categoriasExistentes || categoriasExistentes.length === 0
FaltanCategorias(categoriasExistentes) == categoriasExistentes = {}

\* The mount effect of a screen, on this device or on another one that uses
\* the same store, calls inicializarCategorias().
inicializarCategorias_inicio ==
  /\ ruta = RutaHome
  /\ user # null
  /\ HayOpLibre
  /\ ops' = [ops EXCEPT ![OpSlotLibre] =
               [OpLibre EXCEPT !.fn = "inicializarCategorias", !.pc = "select"]]
  /\ toast' = ToastNinguno
  /\ UNCHANGED <<storeHomeVars, vistaHomeVars, formHomeVars>>
  /\ UNCHANGED <<incomeSinToast, authVars>>

\* The answer of .from(TABLES.CATEGORIAS).select('*') arrives.
inicializarCategorias_select(o) ==
  /\ ops[o].fn = "inicializarCategorias" /\ ops[o].pc = "select"
  /\ \E errorConsulta \in BOOLEAN :
       IF errorConsulta
       THEN /\ toast' = mostrarMensaje("No se pudieron inicializar las categorias")
            /\ ops' = [ops EXCEPT ![o] = OpLibre]
       ELSE /\ toast' = ToastNinguno
            /\ ops' = [ops EXCEPT ![o] = IF FaltanCategorias(tblCategorias)
                                         THEN [@ EXCEPT !.pc = "insert"]
                                         ELSE OpLibre]
  /\ UNCHANGED <<storeHomeVars, vistaHomeVars, formHomeVars>>
  /\ UNCHANGED <<incomeSinToast, authVars>>

\* The answer of .insert(CATEGORIAS_DEFAULT) arrives.
inicializarCategorias_insert(o) ==
  /\ ops[o].fn = "inicializarCategorias" /\ ops[o].pc = "insert"
  /\ \E errorInsercion \in BOOLEAN :
       IF errorInsercion
       THEN /\ toast' = mostrarMensaje("No se pudieron inicializar las categorias")
            /\ UNCHANGED tblCategorias
       ELSE /\ toast' = ToastNinguno
            /\ tblCategorias' = insertarCategorias(CATEGORIAS_DEFAULT)
  /\ ops' = [ops EXCEPT ![o] = OpLibre]
  /\ UNCHANGED <<tblTransacciones, nextIdTr, vistaHomeVars, formHomeVars>>
  /\ UNCHANGED <<incomeSinToast, authVars>>

(* ---- cargarCategorias ------------------------------------------------- *)
\* The second mount effect calls cargarCategorias().  The call changes
\* nothing until its answer arrives, and the record of the call is kept
\* once it has ended.
cargarCategorias_inicio ==
  /\ ruta = RutaHome
  /\ user # null
  /\ HayOpLibre
  /\ \A o \in Ops : ops[o].fn # "cargarCategorias"
  /\ ops' = [ops EXCEPT ![OpSlotLibre] =
               [OpLibre EXCEPT !.fn = "cargarCategorias", !.pc = "select"]]
  /\ toast' = ToastNinguno
  /\ UNCHANGED <<storeHomeVars, vistaHomeVars, formHomeVars>>
  /\ UNCHANGED <<incomeSinToast, authVars>>

\* The store answers .from('categorias').select('*').order('nombre').
cargarCategorias_select(o) ==
  /\ ops[o].fn = "cargarCategorias" /\ ops[o].pc = "select"
  /\ \/ ops' = [ops EXCEPT ![o].pc = "recibe", ![o].cdDatos = tblCategorias]
     \/ ops' = [ops EXCEPT ![o].pc = "recibe_error"]
  /\ toast' = ToastNinguno
  /\ UNCHANGED <<storeHomeVars, vistaHomeVars, formHomeVars>>
  /\ UNCHANGED <<incomeSinToast, authVars>>

\* cargarCategorias receives the answer: `if (data) setCategorias(data)`,
\* an empty array included.
cargarCategorias_fin(o) ==
  /\ ops[o].fn = "cargarCategorias" /\ ops[o].pc \in {"recibe", "recibe_error"}
  /\ categorias' = IF ops[o].pc = "recibe" THEN ops[o].cdDatos ELSE categorias
  /\ toast' = IF ops[o].pc = "recibe" THEN ToastNinguno
              ELSE mostrarMensaje("No se pudieron cargar las categorias")
  /\ ops' = [ops EXCEPT ![o] = [OpLibre EXCEPT !.fn = "cargarCategorias", !.pc = "fin"]]
  /\ UNCHANGED <<storeHomeVars, transacciones, saldo, loading, loadingDatos,
                 datosIngresos, datosEgresos, formHomeVars>>
  /\ UNCHANGED <<incomeSinToast, authVars>>

(* ---- obtenerSaldoActual ----------------------------------------------- *)
\* The store answers the query of obtenerSaldoActual.
saldo_select(o) ==
  /\ ops[o].os = "q"
  /\ \/ ops' = [ops EXCEPT ![o].os = "q_ok", ![o].osDatos = FilasDeSaldo]
     \/ ops' = [ops EXCEPT ![o].os = "q_error"]
  /\ UNCHANGED <<storeHomeVars, vistaHomeVars, formHomeVars>>
  /\ toast' = ToastNinguno
  /\ UNCHANGED <<incomeSinToast, authVars>>

obtenerSaldoActual_fin(o) ==
  /\ ops[o].os \in {"q_ok", "q_error"}
  /\ saldo' = IF ops[o].os = "q_ok" THEN nuevoSaldo(ops[o].osDatos) ELSE saldo
  /\ FinDeOp(o, ops[o].cd = "fin", TRUE,
             IF ops[o].os = "q_ok" /\ nuevoSaldo(ops[o].osDatos) < 0
             THEN showInfo("Recomendaciones", "Para mejorar tu situacion financiera")
             ELSE ToastNinguno)
  /\ UNCHANGED <<storeHomeVars, transacciones, categorias, loadingDatos, datosIngresos,
                 datosEgresos, formHomeVars>>
  /\ UNCHANGED <<incomeSinToast, authVars>>

(* ---- the form of the modal -------------------------------------------- *)
handleOpenModal ==
  /\ ruta = RutaHome
  /\ ~modalVisible
  /\ modalVisible' = TRUE
  /\ UNCHANGED <<storeHomeVars, vistaHomeVars, monto, tipoSeleccionado,
                 categoriaSeleccionada, ops>>
  /\ toast' = ToastNinguno
  /\ UNCHANGED <<incomeSinToast, authVars>>

\* The close button and the back button of the modal.
cerrarModal ==
  /\ ruta = RutaHome
  /\ modalVisible
  /\ handleCloseModal
  /\ toast' = ToastNinguno
  /\ UNCHANGED <<storeHomeVars, vistaHomeVars, ops>>
  /\ UNCHANGED <<incomeSinToast, authVars>>

setMonto(text) ==
  /\ ruta = RutaHome
  /\ modalVisible
  /\ monto' = text
  /\ UNCHANGED <<storeHomeVars, vistaHomeVars, tipoSeleccionado, categoriaSeleccionada,
                 modalVisible, ops>>
  /\ toast' = ToastNinguno
  /\ UNCHANGED <<incomeSinToast, authVars>>

setTipoSeleccionado(tipo) ==
  /\ ruta = RutaHome
  /\ modalVisible
  /\ tipoSeleccionado' = tipo
  /\ UNCHANGED <<storeHomeVars, vistaHomeVars, monto, categoriaSeleccionada,
                 modalVisible, ops>>
  /\ toast' = ToastNinguno
  /\ UNCHANGED <<incomeSinToast, authVars>>

\* A press on an item of the list of categoriasFiltradas.
setCategoriaSeleccionada(item) ==
  /\ ruta = RutaHome
  /\ modalVisible
  /\ item \in categoriasFiltradas
  /\ categoriaSeleccionada' = Some(item)
  /\ UNCHANGED <<storeHomeVars, vistaHomeVars, monto, tipoSeleccionado,
                 modalVisible, ops>>
  /\ toast' = ToastNinguno
  /\ UNCHANGED <<incomeSinToast, authVars>>

(* ---- initial state and next-state relation ---------------------------- *)
UsuarioHome == [id |-> 1, gmail |-> "ana@mail", contrasena |-> Sha256Hex(<<97>>)]

\* Rows of transacciones when the screen opens: an income of the user dated
\* the month before the first month, and an expense of another user.
TransaccionesIniciales ==
  { [id |-> 1, usuario_id |-> 1, categoria_id |-> 1, monto |-> 10 * Escala,
     tipo |-> "ingreso", fecha |-> MesInicial - 1],
    [id |-> 2, usuario_id |-> 2, categoria_id |-> 2, monto |-> 3 * Escala,
     tipo |-> "egreso", fecha |-> MesInicial] }

\* The screen after its first render: the mount effect has called
\* cargarDatos() and obtenerSaldoActual().  The table of categorias holds
\* rows already; the calls of the effects that only read or seed it
\* (inicializarCategorias, cargarCategorias) and the same two calls made
\* again by the second effect are not followed.
InitHomeVars ==
  /\ tblTransacciones = TransaccionesIniciales
  /\ nextIdTr = Cardinality(TransaccionesIniciales) + 1
  /\ tblCategorias = CategoriasIniciales
  /\ transacciones = {}
  /\ categorias = {}
  /\ saldo = 0
  /\ loading = FALSE
  /\ loadingDatos = TRUE
  /\ datosIngresos = procesarTransacciones({}, TRUE)
  /\ datosEgresos = procesarTransacciones({}, FALSE)
  /\ monto = <<>>
  /\ tipoSeleccionado = "ingreso"
  /\ categoriaSeleccionada = null
  /\ modalVisible = FALSE
  /\ ops = [o \in Ops |-> IF o = 1 THEN IniciarRefresco([OpLibre EXCEPT !.fn = "efecto"])
                          ELSE OpLibre]

\* The home screen is not mounted.
HomeSinMontar ==
  /\ tblTransacciones = {}
  /\ nextIdTr = 1
  /\ tblCategorias = {}
  /\ transacciones = {}
  /\ categorias = {}
  /\ saldo = 0
  /\ loading = FALSE
  /\ loadingDatos = FALSE
  /\ datosIngresos = procesarTransacciones({}, TRUE)
  /\ datosEgresos = procesarTransacciones({}, FALSE)
  /\ monto = <<>>
  /\ tipoSeleccionado = "ingreso"
  /\ categoriaSeleccionada = null
  /\ modalVisible = FALSE
  /\ ops = [o \in Ops |-> OpLibre]

\* The signed-in user of the home screen and an idle AuthProvider.
AuthConSesion ==
  /\ tblUsuarios = {UsuarioHome}
  /\ tblBilletera = {[usuario_id |-> 1, saldo |-> 0]}
  /\ user = Some(UsuarioHome)
  /\ cryptoSubtle = TRUE
  /\ auth = AuthIdle
  /\ causasVistas = {}

\* The income variables while the home screen is the mounted one.
IncomeEnHome ==
  /\ tblTransactions = {}
  /\ nextIdTx = 1
  /\ transactions = {}
  /\ amount = <<>>
  /\ category = ""
  /\ loadingIncome = FALSE
  /\ isAuthenticated = FALSE
  /\ modalVisibleIncome = FALSE
  /\ ruta = RutaHome
  /\ toast = ToastNinguno
  /\ ahora \in Meses
  /\ tareas = [t \in Tareas |-> TareaLibre]

\* No handler call or load of the home screen is in progress.
Quieto == \A o \in Ops : ops[o].pc = "libre"

\* What the user does on the home screen.
NextUsuarioHome ==
  \/ agregarTransaccion_inicio
  \/ \E id \in 1..MaxTransacciones : eliminarTransaccion_inicio(id)
  \/ handleOpenModal
  \/ cerrarModal
  \/ \E text \in MontoInputs : setMonto(text)
  \/ \E tipo \in {"ingreso", "egreso"} : setTipoSeleccionado(tipo)
  \/ \E item \in categorias : setCategoriaSeleccionada(item)

\* The steps of the calls in progress.
NextLlamadasHome ==
  \/ \E o \in Ops : agregarTransaccion_rpc(o)
  \/ \E o \in Ops : eliminarTransaccion_check(o)
  \/ \E o \in Ops : eliminarTransaccion_rpc(o)
  \/ \E o \in Ops : transacciones_select(o)
  \/ \E o \in Ops : cargarDatos_transacciones(o)
  \/ \E o \in Ops : categorias_select(o)
  \/ \E o \in Ops : cargarDatos_categorias(o)
  \/ \E o \in Ops : saldo_select(o)
  \/ \E o \in Ops : obtenerSaldoActual_fin(o)

\* The home screen used in sequence: the user acts when no call is in
\* progress.
NextHome == NextLlamadasHome \/ (Quieto /\ NextUsuarioHome)

(***************************************************************************)
(* Specifications.                                                         *)
(***************************************************************************)
InitAuth == InitAuthVars /\ IncomeSinMontar /\ HomeSinMontar

SpecAuth == InitAuth /\ [][NextAuth]_vars

InitIncome == InitIncomeVars /\ AuthSinUso /\ HomeSinMontar

SpecIncome == InitIncome /\ [][NextIncome]_vars

InitHome == InitHomeVars /\ AuthConSesion /\ IncomeEnHome

SpecHome == InitHome /\ [][NextHome]_vars

\* The home screen with calls that overlap: the mount effect's load is in
\* progress while the user deletes rows of the list, and every read of the
\* rows of the balance is answered with rows.
SinFalloDeSaldo == \A o \in Ops : ops[o].os # "q_error"

NextSolapado ==
  \/ \E id \in {r.id : r \in transacciones} : eliminarTransaccion_inicio(id)
  \/ \E o \in Ops : eliminarTransaccion_check(o)
  \/ \E o \in Ops : eliminarTransaccion_rpc(o)
  \/ \E o \in Ops : transacciones_select(o)
  \/ \E o \in Ops : cargarDatos_transacciones(o)
  \/ \E o \in Ops : categorias_select(o)
  \/ \E o \in Ops : cargarDatos_categorias(o)
  \/ \E o \in Ops : saldo_select(o) /\ SinFalloDeSaldo'
  \/ \E o \in Ops : obtenerSaldoActual_fin(o)

SpecSolapado == InitHome /\ [][NextSolapado]_vars

\* The home screen on a store that holds no row yet: the mount effect has
\* called inicializarCategorias(), cargarDatos() and obtenerSaldoActual(),
\* and other mounts against the same store may follow.
InitCategorias ==
  /\ tblTransacciones = {}
  /\ nextIdTr = 1
  /\ tblCategorias = {}
  /\ transacciones = {}
  /\ categorias = {}
  /\ saldo = 0
  /\ loading = FALSE
  /\ loadingDatos = TRUE
  /\ datosIngresos = procesarTransacciones({}, TRUE)
  /\ datosEgresos = procesarTransacciones({}, FALSE)
  /\ monto = <<>>
  /\ tipoSeleccionado = "ingreso"
  /\ categoriaSeleccionada = null
  /\ modalVisible = FALSE
  /\ ops = [o \in Ops |->
              IF o = 1 THEN IniciarRefresco([OpLibre EXCEPT !.fn = "efecto"])
              ELSE IF o = 2
                   THEN [OpLibre EXCEPT !.fn = "inicializarCategorias", !.pc = "select"]
              ELSE OpLibre]
  /\ AuthConSesion
  /\ IncomeEnHome

NextCategorias ==
  \/ inicializarCategorias_inicio
  \/ \E o \in Ops : inicializarCategorias_select(o)
  \/ \E o \in Ops : inicializarCategorias_insert(o)
  \/ \E o \in Ops : transacciones_select(o)
  \/ \E o \in Ops : cargarDatos_transacciones(o)
  \/ \E o \in Ops : categorias_select(o)
  \/ \E o \in Ops : cargarDatos_categorias(o)
  \/ \E o \in Ops : saldo_select(o)
  \/ \E o \in Ops : obtenerSaldoActual_fin(o)

SpecCategorias == InitCategorias /\ [][NextCategorias]_vars

\* The income screen is opened while a user is signed in: its state is the
\* initial one and the mount effect calls initializeAuth().
montarIncome ==
  /\ user # null
  /\ auth.pc \in {"idle", "done"}
  /\ ruta # RutaIncome
  /\ ruta' = RutaIncome
  /\ tareas' = [t \in Tareas |->
                  IF t = 1 THEN [TareaLibre EXCEPT !.fn = "initializeAuth", !.pc = "getSession"]
                  ELSE TareaLibre]
  /\ toast' = ToastNinguno
  /\ UNCHANGED <<tblTransactions, nextIdTx, transactions, amount, category, loadingIncome,
                 isAuthenticated, modalVisibleIncome, ahora>>
  /\ UNCHANGED <<authVars, homeVars>>

\* The AuthProvider used from the login screen, followed by the opening of
\* the income screen and its session guard.
NextSesion ==
  \/ ruta # RutaIncome /\ NextAuth
  \/ montarIncome
  \/ \E t \in Tareas : initializeAuth_getSession(t)

SpecSesion == InitAuth /\ [][NextSesion]_vars

\* The home screen with calls that overlap and a form in use: the user adds
\* incomes of 5 and deletes rows of the list while one other call is in
\* progress, and every read is answered with rows.
SinFalloDeLectura ==
  \A o \in Ops : ops[o].cd \notin {"q1_error", "q2_error"} /\ ops[o].os # "q_error"

UnaEnCurso == Cardinality({o \in Ops : ops[o].pc # "libre"}) <= 1

NextCarga ==
  \/ handleOpenModal
  \/ setMonto(<<"5">>)
  \/ \E item \in categorias : setCategoriaSeleccionada(item)
  \/ UnaEnCurso /\ agregarTransaccion_inicio
  \/ \E o \in Ops : agregarTransaccion_rpc(o)
  \/ \E id \in {r.id : r \in transacciones} : UnaEnCurso /\ eliminarTransaccion_inicio(id)
  \/ \E o \in Ops : eliminarTransaccion_check(o)
  \/ \E o \in Ops : eliminarTransaccion_rpc(o)
  \/ \E o \in Ops : transacciones_select(o) /\ SinFalloDeLectura'
  \/ \E o \in Ops : cargarDatos_transacciones(o)
  \/ \E o \in Ops : categorias_select(o) /\ SinFalloDeLectura'
  \/ \E o \in Ops : cargarDatos_categorias(o)
  \/ \E o \in Ops : saldo_select(o) /\ SinFalloDeLectura'
  \/ \E o \in Ops : obtenerSaldoActual_fin(o)

SpecCarga == InitHome /\ [][NextCarga]_vars

\* The first load of the home screen on a store that holds no row, with
\* every remote call answered without error: inicializarCategorias(),
\* cargarDatos() and obtenerSaldoActual() of the first effect and
\* cargarCategorias() of the second.
NextPrimeraCarga ==
  \/ cargarCategorias_inicio
  \/ \E o \in Ops : cargarCategorias_select(o) /\ ops'[o].pc # "recibe_error"
  \/ \E o \in Ops : cargarCategorias_fin(o)
  \/ \E o \in Ops : inicializarCategorias_select(o) /\ toast' = ToastNinguno
  \/ \E o \in Ops : inicializarCategorias_insert(o) /\ toast' = ToastNinguno
  \/ \E o \in Ops : transacciones_select(o) /\ SinFalloDeLectura'
  \/ \E o \in Ops : cargarDatos_transacciones(o)
  \/ \E o \in Ops : categorias_select(o) /\ SinFalloDeLectura'
  \/ \E o \in Ops : cargarDatos_categorias(o)
  \/ \E o \in Ops : saldo_select(o) /\ SinFalloDeLectura'
  \/ \E o \in Ops : obtenerSaldoActual_fin(o)

SpecPrimeraCarga == InitCategorias /\ [][NextPrimeraCarga]_vars

\* Either screen is the mounted one.
InitApp == InitHome \/ InitIncome

NextApp == NextHome \/ NextIncome

SpecApp == InitApp /\ [][NextApp]_vars

\* A step of the home-screen call o: the response of one of its remote
\* calls arrives, or the screen receives it.
PasoDeOp(o) ==
  \/ agregarTransaccion_rpc(o)
  \/ eliminarTransaccion_check(o)
  \/ eliminarTransaccion_rpc(o)
  \/ transacciones_select(o)
  \/ cargarDatos_transacciones(o)
  \/ categorias_select(o)
  \/ cargarDatos_categorias(o)
  \/ saldo_select(o)
  \/ obtenerSaldoActual_fin(o)

\* A step of the income-screen call t.
PasoDeTarea(t) ==
  \/ initializeAuth_getSession(t)
  \/ loadTransactions_getSession(t)
  \/ loadTransactions_select(t)
  \/ handleAddIncome_getSession(t)
  \/ handleAddIncome_insert(t)
  \/ deleteTransaction_delete(t)

\* Either screen with a form that is filled in with a valid amount (an
\* income of 5 on the home screen), the user of the home screen acting when
\* no call of that screen is in progress.
NextTermina ==
  \/ Quieto /\ handleOpenModal
  \/ Quieto /\ setMonto(<<"5">>)
  \/ \E item \in categorias : Quieto /\ setCategoriaSeleccionada(item)
  \/ Quieto /\ agregarTransaccion_inicio
  \/ \E id \in {r.id : r \in tblTransacciones} : Quieto /\ eliminarTransaccion_inicio(id)
  \/ \E o \in Ops : agregarTransaccion_rpc(o)
  \/ \E o \in Ops : eliminarTransaccion_check(o)
  \/ \E o \in Ops : eliminarTransaccion_rpc(o)
  \/ \E o \in Ops : transacciones_select(o)
  \/ \E o \in Ops : cargarDatos_transacciones(o)
  \/ \E o \in Ops : categorias_select(o)
  \/ \E o \in Ops : cargarDatos_categorias(o)
  \/ \E o \in Ops : saldo_select(o)
  \/ \E o \in Ops : obtenerSaldoActual_fin(o)
  \/ \E t \in Tareas : initializeAuth_getSession(t)
  \/ \E t \in Tareas : loadTransactions_getSession(t)
  \/ \E t \in Tareas : loadTransactions_select(t)
  \/ abrirModalIncome
  \/ setAmount(<<"1", "2">>)
  \/ \E c \in CategoriasElegidas : setCategory(c)
  \/ handleAddIncome_inicio
  \/ \E t \in Tareas : handleAddIncome_getSession(t)
  \/ \E t \in Tareas : handleAddIncome_insert(t)
  \/ \E id \in 1..MaxTransactions : deleteTransaction_inicio(id)
  \/ \E t \in Tareas : deleteTransaction_delete(t)

\* Each remote call eventually returns: a call in progress takes its next
\* step.  What the user does is under no fairness condition.
SpecTermina ==
  /\ InitApp
  /\ [][NextTermina]_vars
  /\ \A o \in Ops : WF_vars(PasoDeOp(o))
  /\ \A t \in Tareas : WF_vars(PasoDeTarea(t))

(***************************************************************************)
(* Properties of the AuthProvider.                                         *)
(***************************************************************************)
\* The step in which a call of fn returns or throws.
Termina(fn) == auth.pc # "done" /\ auth'.pc = "done" /\ auth'.fn = fn

\* C3: when signUp throws after the user row was inserted and the wallet
\* insert failed, the users table holds no row of the just-registered user
\* without a wallet row, and the in-memory user was not set.
CX_C3_SinHuerfano ==
  [][(Termina("signUp") /\ auth'.resultado = "throw" /\ auth'.userData # null) =>
       /\ \A u \in tblUsuarios' :
             u.id = auth'.userData[1].id =>
               \E b \in tblBilletera' : b.usuario_id = u.id
       /\ user' = auth'.userAntes]_vars

\* C4: a signIn whose password matches the stored hash only under the
\* previous-generation digest (SHA-256) and not under the digest hashPassword
\* produced succeeds, sets user and leaves the current digest stored.
CX_C4_MigracionLegacy ==
  [][(/\ Termina("signIn")
      /\ auth'.userData # null
      /\ auth'.hashAntes = Sha256Hex(auth'.contrasena)
      /\ auth'.hashAntes # auth'.newHash) =>
       /\ auth'.resultado = "ok"
       /\ user' = auth'.userData
       /\ \A u \in tblUsuarios' :
             u.id = auth'.userData[1].id => u.contrasena = auth'.newHash]_vars

\* C10: signIn rejects an unknown email and a wrong password with the same
\* error message and the same (unchanged) user state.
Thm_C10_ErrorGenerico ==
  [][(Termina("signIn") /\ auth'.causa \in {"noexiste", "nocoincide"}) =>
       /\ auth'.resultado = "throw"
       /\ auth'.error = "Credenciales incorrectas"
       /\ user' = auth'.userAntes]_vars

Wit_C10_AmbasCausas ==
  /\ auth.fn = "signIn" /\ auth.pc = "done" /\ auth.resultado = "throw"
  /\ auth.error = "Credenciales incorrectas"
  /\ causasVistas = {"noexiste", "nocoincide"}


\* C21: the step in which the answer of the update of the stored hash
\* arrives, made after the previous-generation digest matched, accepts the
\* login and sets user whether the update succeeded or not.
CX_C21_AceptaSinActualizar ==
  [][signIn_update => /\ auth'.resultado = "ok"
                      /\ user' = auth.userData]_vars

\* C22: a step rewrites the stored hash of an existing account only when it
\* is the update of signIn's legacy branch, for the account being logged in
\* and after its stored hash matched the previous-generation digest; the
\* users table changes only inside signUp and in that update; a signIn that
\* is rejected or accepted on the current digest, and signOut, have written
\* no row.
Thm_C22_SoloMigraLaCuentaQueEntra ==
  [][/\ \A u \in tblUsuarios :
          (\E v \in tblUsuarios' : v.id = u.id /\ v.contrasena # u.contrasena)
          => /\ auth.fn = "signIn" /\ auth.pc = "update" /\ auth.legacy
             /\ u.id = auth.userData[1].id
             /\ u.contrasena = Sha256Hex(auth.contrasena)
     /\ tblUsuarios' # tblUsuarios
        => auth.fn = "signUp" \/ (auth.fn = "signIn" /\ auth.pc = "update")
     /\ (Termina("signIn") /\ (auth'.resultado = "throw" \/ ~auth'.legacy))
        => auth'.escrituras = {}
     /\ signOut => tblUsuarios' = tblUsuarios]_vars

\* A legacy login has migrated the hash of its account while another
\* account exists.
Wit_C22_MigradaConOtraCuenta ==
  /\ auth.fn = "signIn" /\ auth.pc = "done" /\ auth.resultado = "ok" /\ auth.legacy
  /\ auth.escrituras = {auth.userData[1].id}
  /\ auth.hashAntes # auth.newHash
  /\ \E u \in tblUsuarios : u.id = auth.userData[1].id /\ u.contrasena = auth.newHash
  /\ \E u \in tblUsuarios : u.id # auth.userData[1].id

\* C28: a step changes user to a record only when it ends a signIn or signUp
\* call that returns, the record being the row of that call, and to null
\* only when it is signOut; when a signIn or signUp call throws, user is what
\* it was when the call started.
Thm_C28_UserSoloPorExito ==
  [][/\ user' # user
        => \/ signOut /\ user' = null
           \/ /\ Termina("signIn") \/ Termina("signUp")
              /\ auth'.resultado = "ok"
              /\ user' # null /\ user' = auth'.userData
     /\ ((Termina("signIn") \/ Termina("signUp")) /\ auth'.resultado = "throw")
        => user' = auth'.userAntes]_vars

\* A call has thrown while a user was signed in, and a call has thrown after
\* its row was read: user is still the one signed in before the call.
Wit_C28_LanzaConUsuario ==
  /\ auth.pc = "done" /\ auth.resultado = "throw"
  /\ auth.userAntes # null /\ user = auth.userAntes
  /\ auth.userData # null /\ auth.userData # user

(***************************************************************************)
(* Properties of the income screen.                                        *)
(***************************************************************************)
MismoMesCalendario(d, hoy) ==
  getMonth(d) = getMonth(hoy) /\ getFullYear(d) = getFullYear(hoy)

\* C5: the listed transactions and the per-category breakdown hold exactly
\* the loaded transactions dated in the current month of the current year,
\* and totalIncome sums every loaded transaction.
CX_C5_MesCalendario ==
  /\ currentMonthIncomes = {t \in transactions : MismoMesCalendario(t.date, ahora)}
  /\ \A c \in {t.category : t \in transactions} :
       LET delMes == {t \in transactions :
                        t.category = c /\ MismoMesCalendario(t.date, ahora)}
       IN IF delMes = {} THEN c \notin DOMAIN incomesByCategory
          ELSE c \in DOMAIN incomesByCategory /\ incomesByCategory[c] = SumaAmount(delMes)
  /\ totalIncome = SumaAmount(transactions)

EntradaEjemplo ==
  <<"S", "/", ".", " ", "1", ",", "2", "5", "0", ".", "5", "0", "a", "b", "c">>

\* 1250.50 in units of 10^-Decimales.
Valor1250_50 == (125050 * Escala) \div 100

\* C7: handleAddIncome accepts the input "S/. 1,250.50abc" as the amount
\* 1250.50, and rejects an input such as "abc" with a message and no call.
CX_C7_EntradaEjemplo ==
  [][(handleAddIncome_inicio /\ isAuthenticated /\ category # "") =>
       /\ amount = EntradaEjemplo =>
            \E t \in Tareas : /\ tareas'[t].fn = "handleAddIncome"
                              /\ tareas[t].fn # "handleAddIncome"
                              /\ tareas'[t].monto = Valor1250_50
       /\ amount = <<"a", "b", "c">> =>
            tareas' = tareas /\ toast'.tipo = "error"]_vars

\* C14: every step of the income screen that reads or writes the
\* transactions table (select, insert, delete) is made by a call that has
\* obtained the session: the call holds the id of the session's user.
CX_C14_SesionAntesDeLaTabla ==
  [][\A t \in Tareas :
       (\/ loadTransactions_select(t)
        \/ handleAddIncome_insert(t)
        \/ deleteTransaction_delete(t))
       => tareas[t].uid # ""]_vars

\* C15: a call of initializeAuth, loadTransactions or handleAddIncome that
\* finds no session (or an error) stops there and the app is at /auth/login.
CX_C15_SinSesionVaALogin ==
  [][\A t \in Tareas :
       (/\ \/ initializeAuth_getSession(t)
           \/ loadTransactions_getSession(t)
           \/ handleAddIncome_getSession(t)
        /\ tareas'[t].pc = "libre")
       => ruta' = RutaLogin]_vars

\* C16: a step of deleteTransaction that removes a row removes a row whose
\* user_id was compared with the id of the session's user: the call holds
\* that id and it is the owner of the row.
CX_C16_EliminaTrasVerificar ==
  [][\A t \in Tareas :
       deleteTransaction_delete(t)
       => \A r \in tblTransactions \ tblTransactions' :
            tareas[t].uid # "" /\ r.user_id = tareas[t].uid]_vars

CX_C26_UserImplicaSesion ==
  [][\A t \in Tareas :
       (initializeAuth_getSession(t) /\ user # null)
       => /\ ruta' = RutaIncome
          /\ isAuthenticated'
          /\ tareas'[t].fn = "loadTransactions"]_vars

(***************************************************************************)
(* Properties of the home screen.                                          *)
(***************************************************************************)
FilasDelUsuario == {r \in tblTransacciones : r.usuario_id = idUsuario}

\* The sum of the incomes of the user in the store minus the sum of their
\* expenses.
SaldoReal ==
  SumaMonto({r \in FilasDelUsuario : r.tipo = "ingreso"})
    - SumaMonto({r \in FilasDelUsuario : r.tipo = "egreso"})

\* C1: with the calls made in sequence and no other writer, when the
\* obtenerSaldoActual recompute of a successful agregarTransaccion or
\* eliminarTransaccion call completes, saldo equals the sum of monto over
\* the user's existing ingreso rows minus the sum over their egreso rows.
Thm_C1_SaldoSumaConSigno ==
  [][\A o \in Ops :
       (/\ obtenerSaldoActual_fin(o)
        /\ ops[o].fn \in {"agregarTransaccion", "eliminarTransaccion"}
        /\ ops[o].os = "q_ok")
       => saldo' = SaldoReal']_vars

\* After a create of an expense and the delete of the initial income, both
\* successful and recomputed: the balance is the negative of the expense.
Wit_C1_CrearYEliminar ==
  /\ Quieto
  /\ \E r \in tblTransacciones : r.id = 3 /\ r.usuario_id = 1 /\ r.tipo = "egreso"
  /\ ~(\E r \in tblTransacciones : r.id = 1)
  /\ saldo = SaldoReal
  /\ saldo = 0 - 5 * Escala

\* C2: when the ownership check of eliminarTransaccion finds no row with
\* the given id that belongs to the given user, the call shows the
\* permission message and ends there: no eliminar_transaccion, no re-fetch,
\* and saldo, transacciones, datosIngresos, datosEgresos keep their values.
Thm_C2_SinPermiso ==
  [][\A o \in Ops :
       (/\ eliminarTransaccion_check(o)
        /\ ~(\E r \in tblTransacciones : r.id = ops[o].tid /\ r.usuario_id = idUsuario))
       => /\ toast' = showInfo("Informacion", MsgSinPermiso)
          /\ ops'[o].pc = "libre"
          /\ tblTransacciones' = tblTransacciones
          /\ saldo' = saldo /\ transacciones' = transacciones
          /\ datosIngresos' = datosIngresos /\ datosEgresos' = datosEgresos]_vars

\* eliminarTransaccion is at its ownership check for a row of another user.
Wit_C2_FilaAjena ==
  \E o \in Ops :
    /\ ops[o].fn = "eliminarTransaccion" /\ ops[o].pc = "check"
    /\ \E r \in tblTransacciones : r.id = ops[o].tid /\ r.usuario_id # idUsuario
    /\ transacciones # {}

\* The entries of a breakdown computed from the rows `filas` of one kind.
EsDesgloseDe(datos, filas) ==
  /\ DOMAIN datos = {t.categorias.nombre : t \in filas}
  /\ \A n \in DOMAIN datos :
       datos[n] = SumaMonto({t \in filas : t.categorias.nombre = n})

CX_C9_CategoriaDelTipo ==
  [][\A o \in Ops :
       (/\ agregarTransaccion_inicio
        /\ ops[o].pc = "libre" /\ ops'[o].pc = "rpc")
       => \E c \in categorias : c.id = ops'[o].cat /\ c.tipo = ops'[o].tipo]_vars

\* C11: the step of agregarTransaccion that passes validation and starts
\* crear_transaccion shows the overdraft warning exactly when the kind is
\* egreso and the amount exceeds saldo; the row is written by a later step.
Thm_C11_AdvertenciaDeSaldo ==
  [][\A o \in Ops :
       (agregarTransaccion_inicio /\ ops[o].pc = "libre" /\ ops'[o].pc = "rpc")
       => /\ (toast' = AdvertenciaSaldo)
               <=> (ops'[o].tipo = "egreso" /\ ops'[o].monto > saldo)
          /\ toast' \in {AdvertenciaSaldo, ToastNinguno}
          /\ tblTransacciones' = tblTransacciones]_vars

\* An expense above the balance has been submitted: the warning is shown
\* and crear_transaccion is in flight.
Wit_C11_GastoSobreSaldo ==
  /\ toast = AdvertenciaSaldo
  /\ \E o \in Ops : /\ ops[o].fn = "agregarTransaccion" /\ ops[o].pc = "rpc"
                     /\ ops[o].tipo = "egreso" /\ ops[o].monto > saldo

\* C12: when crear_transaccion fails, agregarTransaccion shows a message,
\* starts no refresh, and saldo, transacciones, the breakdowns and the form
\* inputs hold the values they had when the call was made.
CX_C12_FalloSinCambios ==
  [][\A o \in Ops :
       (agregarTransaccion_rpc(o) /\ ops'[o].pc = "libre")
       => /\ toast'.tipo # "none"
          /\ tblTransacciones' = tblTransacciones
          /\ saldo' = saldo /\ transacciones' = transacciones
          /\ datosIngresos' = datosIngresos /\ datosEgresos' = datosEgresos
          /\ tipoSeleccionado' = ops[o].tipo
          /\ categoriaSeleccionada' # null
          /\ categoriaSeleccionada'[1].id = ops[o].cat
          /\ monto' # <<>>
          /\ Number(monto').v = ops[o].monto]_vars

\* C19: agregarTransaccion accepts the amount typed (it goes on to
\* crear_transaccion) exactly when the text, once its non-numeric characters
\* are stripped, is a positive number; "$50" is accepted as 50.
CX_C19_MontoSinSimbolos ==
  [][agregarTransaccion_inicio
     => LET limpio == Number(SoloNumerico(monto)) IN
        (\E o \in Ops : ops[o].pc = "libre" /\ ops'[o].pc = "rpc")
        <=> (~isNaN(limpio) /\ limpio.v > 0)]_vars

\* No delete and no read of the rows of the balance is in progress.
RecomputosTerminados ==
  \A o \in Ops : ops[o].os \in {"no", "fin"} /\ ops[o].pc \notin {"check", "rpc"}

\* C18: with overlapping calls whose reads of the balance all succeed, once
\* every obtenerSaldoActual run has completed saldo is the value of the
\* read issued last, which saw the store as it is: a response that carries
\* an older snapshot has not overwritten it.
CX_C18_GanaElUltimoRecomputo ==
  RecomputosTerminados => saldo = SaldoReal

\* C17: whatever runs of inicializarCategorias have been made against the
\* store, interleaved ones included, a categorias table that holds rows holds
\* each of the 12 default (nombre, tipo) pairs exactly once.
CX_C17_DefaultsUnaVez ==
  tblCategorias # {}
  => \A i \in 1..Len(CATEGORIAS_DEFAULT) :
       Cardinality({c \in tblCategorias : /\ c.nombre = CATEGORIAS_DEFAULT[i].nombre
                                          /\ c.tipo = CATEGORIAS_DEFAULT[i].tipo}) = 1

EsExito(t) ==
  \E fn \in {"agregarTransaccion", "eliminarTransaccion"}, tipo \in {"ingreso", "egreso"} :
    t = mostrarMensaje(MsgExito(fn, tipo))

\* C23: a call of agregarTransaccion or eliminarTransaccion starts its
\* refresh only in the step in which its remote procedure returns without
\* error (no error message is shown); a step shows a success message only when
\* it ends the second of the two refresh calls of such a call; and when the
\* remote procedure fails the call ends there with no success message.
Thm_C23_RefrescoTrasExito ==
  [][/\ \A o \in Ops :
          /\ (ops[o].pc # "refresco" /\ ops'[o].pc = "refresco")
             => /\ ops[o].pc = "rpc"
                /\ agregarTransaccion_rpc(o) \/ eliminarTransaccion_rpc(o)
                /\ toast' = ToastNinguno
          /\ (/\ agregarTransaccion_rpc(o) \/ eliminarTransaccion_rpc(o)
              /\ ops'[o].pc # "refresco")
             => /\ ~EsExito(toast')
                /\ ops'[o] = OpLibre
                /\ tblTransacciones' = tblTransacciones
     /\ EsExito(toast')
        => \E o \in Ops :
             /\ ops[o].fn \in {"agregarTransaccion", "eliminarTransaccion"}
             /\ ops[o].pc = "refresco" /\ ops'[o] = OpLibre
             /\ toast' = mostrarMensaje(MsgExito(ops[o].fn, ops[o].tipo))
             /\ \/ ops[o].cd = "fin" /\ obtenerSaldoActual_fin(o)
                \/ /\ ops[o].os = "fin"
                   /\ cargarDatos_transacciones(o) \/ cargarDatos_categorias(o)]_vars

\* The success message of a created expense is on screen and no call is in
\* progress.
Wit_C23_ExitoTrasRefresco ==
  /\ Quieto
  /\ toast = mostrarMensaje(MsgExito("agregarTransaccion", "egreso"))
  /\ \E r \in tblTransacciones : r.id = Cardinality(TransaccionesIniciales) + 1

RECURSIVE SumaEntradas(_)
SumaEntradas(datos) ==
  IF DOMAIN datos = {} THEN 0
  ELSE LET n == CHOOSE x \in DOMAIN datos : TRUE
       IN datos[n] + SumaEntradas([m \in DOMAIN datos \ {n} |-> datos[m]])

\* The loaded rows of one kind: 'ingreso', or every other value of tipo.
DelTipo(esIngreso) == {t \in transacciones : (t.tipo = "ingreso") = esIngreso}

\* One of the two breakdowns against the loaded rows of its kind.
DesglosePorNombre(datos, esIngreso) ==
  /\ \A n \in DOMAIN datos :
       /\ \E t \in DelTipo(esIngreso) : t.categorias.nombre = n
       /\ datos[n] = SumaMonto({t \in DelTipo(esIngreso) : t.categorias.nombre = n})
  /\ \A t \in DelTipo(esIngreso) : t.categorias.nombre \in DOMAIN datos
  /\ SumaEntradas(datos) = SumaMonto(DelTipo(esIngreso))

\* C24: datosIngresos and datosEgresos split the loaded transacciones by
\* tipo and group each kind by category name: an entry is the sum of monto
\* of the rows of its kind and name, a name with no row of the kind has no
\* entry, and the entries of a breakdown add up to the total of its kind.
Thm_C24_ParticionPorTipoYNombre ==
  /\ DesglosePorNombre(datosIngresos, TRUE)
  /\ DesglosePorNombre(datosEgresos, FALSE)

\* The category name Salario has an income and an expense loaded: it has an
\* entry in each breakdown, with different amounts.
Wit_C24_MismoNombreDosTipos ==
  /\ \E t \in DelTipo(TRUE) : t.categorias.nombre = "Salario"
  /\ \E t \in DelTipo(FALSE) : t.categorias.nombre = "Salario"
  /\ "Salario" \in DOMAIN datosIngresos /\ "Salario" \in DOMAIN datosEgresos
  /\ datosIngresos["Salario"] = 10 * Escala
  /\ datosEgresos["Salario"] = 5 * Escala

\* C25: whenever no call of the home screen is in progress (no fetch is in
\* flight), saldo is the sum of monto over the incomes of the displayed
\* transacciones minus the sum over its other rows.
CX_C25_SaldoDeLaLista ==
  Quieto => saldo = SumaMonto(DelTipo(TRUE)) - SumaMonto(DelTipo(FALSE))

\* C27: while a crear_transaccion call of agregarTransaccion is in flight,
\* loading is true and no other agregarTransaccion call has started, also
\* when eliminarTransaccion calls start or end in the meantime.
CX_C27_CargandoMientrasCrea ==
  CrearEnVuelo # {}
  => /\ loading
     /\ Cardinality({o \in Ops : ops[o].fn = "agregarTransaccion"}) = 1

\* Every call of the first load has ended.
PrimeraCargaTerminada ==
  /\ \A o \in Ops : ops[o].pc \in {"libre", "fin"}
  /\ \E o \in Ops : ops[o].fn = "cargarCategorias" /\ ops[o].pc = "fin"

\* C29: on a first load against an empty categorias table in which every
\* remote call succeeds, once the calls have all ended (nothing more will
\* change categorias) the categorias of the screen hold the 12 defaults.
CX_C29_CategoriasSembradasALaVista ==
  PrimeraCargaTerminada
  => \A i \in 1..Len(CATEGORIAS_DEFAULT) :
       \E c \in categorias : /\ c.nombre = CATEGORIAS_DEFAULT[i].nombre
                             /\ c.tipo = CATEGORIAS_DEFAULT[i].tipo

\* C30: a run of agregarTransaccion or eliminarTransaccion that has set
\* loading of the home screen, and a run of handleAddIncome that has set
\* loading of the income screen, is followed by a state in which that
\* loading is false again, whatever the outcomes of the remote calls,
\* provided each remote call returns.
Thm_C30_LoadingVuelveAFalse ==
  /\ loading ~> ~loading
  /\ loadingIncome ~> ~loadingIncome

\* A run of agregarTransaccion whose rpc returned an error has ended and
\* loading is false.
Wit_C30_FalloYLoadingFalse ==
  /\ Quieto
  /\ ~loading
  /\ toast = mostrarMensaje("No se pudo agregar el ingreso")

(***************************************************************************)
(* Properties of both screens.                                             *)
(***************************************************************************)
\* C13: a failed remote call of cargarDatos, obtenerSaldoActual,
\* eliminarTransaccion or loadTransactions leaves transacciones, categorias,
\* saldo and the income screen's transactions as they were when the
\* operation started.  For cargarDatos this is stated of the load of the
\* mount effect, which starts with transacciones and categorias empty.
CX_C13_FalloSinCambioParcial ==
  [][/\ \A o \in Ops :
          /\ (/\ ops[o].fn = "efecto"
              /\ \/ cargarDatos_transacciones(o) /\ ops[o].cd = "q1_error"
                 \/ cargarDatos_categorias(o) /\ ops[o].cd = "q2_error")
             => transacciones' = {} /\ categorias' = {}
          /\ (obtenerSaldoActual_fin(o) /\ ops[o].os = "q_error")
             => saldo' = saldo
          /\ (/\ \/ eliminarTransaccion_check(o)
                 \/ eliminarTransaccion_rpc(o)
              /\ ops'[o].pc = "libre")
             => /\ transacciones' = transacciones /\ categorias' = categorias
                /\ saldo' = saldo
     /\ \A t \in Tareas :
          (/\ loadTransactions_select(t)
           /\ transactions' #
                {r \in tblTransactions : r.user_id = tareas[t].uid /\ r.type = "income"})
          => transactions' = transactions]_vars

\* C8: agregarTransaccion and handleAddIncome, called with an amount that
\* is empty, not a number or not positive, or with no category, show a
\* message and end: no call is started, no row is written, and the list
\* of transactions and the balance keep their values.
Thm_C8_ValidacionSinLlamada ==
  [][/\ (/\ agregarTransaccion_inicio
         /\ \/ monto = <<>>
            \/ categoriaSeleccionada = null
            \/ isNaN(Number(monto))
            \/ Number(monto).v <= 0)
        => /\ toast'.tipo # "none"
           /\ ops' = ops
           /\ tblTransacciones' = tblTransacciones
           /\ transacciones' = transacciones /\ saldo' = saldo
     /\ (/\ handleAddIncome_inicio
         /\ \/ trim(amount) = <<>>
            \/ isNaN(numericAmount(amount))
            \/ numericAmount(amount).v <= 0
            \/ category = "")
        => /\ toast'.tipo # "none"
           /\ tareas' = tareas
           /\ tblTransactions' = tblTransactions
           /\ transactions' = transactions]_vars

\* agregarTransaccion has just rejected an amount, with the form filled in
\* and nothing in progress.
Wit_C8_MontoRechazado ==
  /\ toast = showInfo("Informacion", MsgMontoInvalido)
  /\ monto # <<>> /\ categoriaSeleccionada # null
  /\ Quieto /\ ~loading

=============================================================================
